---- MODULE Spec2Model ----
(***************************************************************************)
(* Personal Assistant (personal-assistant-zanarkand): the persistence      *)
(* layer (core/storage.ts: normalizePayload, loadAppData, saveAppData,     *)
(* exportBackup, importBackup), the App component's handlers (App.tsx) and *)
(* the completion engine (parseHHMMToMinutes, expectedMinutesByNow, the    *)
(* status derivation of Dashboard and SkillEditor).                        *)
(***************************************************************************)
EXTENDS Integers, Sequences, FiniteSets, TLC

VARIABLES
    store,    \* localStorage slot "pa.appData.v1": the raw item
    app,      \* React state `app` of App: the in-memory AppData
    error,    \* React state `error` of App: null or a message
    now,      \* the system clock (an instant)
    pending,  \* number of importBackup calls awaiting file.text()
    download, \* the document the last handler gave the browser to download
    uuids,    \* number of ids crypto.randomUUID() has produced
    last,     \* the last operation: its name, argument, result and time
    call,     \* the last call of a pure function: arguments and result
    view      \* what the mounted components hold in their memos

vars == <<store, app, error, now, pending, download, uuids, last, call, view>>

(***************************************************************************)
(* Bounds of the model.                                                    *)
(***************************************************************************)
MaxNow == 2
MaxPending == 1

(***************************************************************************)
(* JavaScript values. A value is a tuple of its kind and, for the kinds    *)
(* that have one, its content: <<"undefined">>, <<"null">>, <<"number", n>>*)
(* (a finite number), <<"infinity">> (the number Infinity), <<"string", s>>*)
(* (a text that denotes no time), <<"isostring", t>> (the text that        *)
(* Date.toISOString() gives for instant t), <<"array", items>> and         *)
(* <<"object", properties>>.                                               *)
(***************************************************************************)
NoProps == [x \in {} |-> 0]

Undefined == <<"undefined">>
Null == <<"null">>
Num(n) == <<"number", n>>
Infinity == <<"infinity">>
Str(s) == <<"string", s>>
IsoString(t) == <<"isostring", t>>
Arr(a) == <<"array", a>>
Obj(o) == <<"object", o>>

\* typeof v
TypeOf(v) ==
    CASE v[1] = "undefined" -> "undefined"
      [] v[1] \in {"number", "infinity"} -> "number"
      [] v[1] \in {"string", "isostring"} -> "string"
      [] OTHER -> "object"

\* Array.isArray(v)
IsArray(v) == v[1] = "array"

\* ToBoolean(v): what `!v` and `v && ...` test
Truthy(v) ==
    CASE v[1] \in {"undefined", "null"} -> FALSE
      [] v[1] = "number" -> v[2] # 0
      [] v[1] = "string" -> v[2] # ""
      [] OTHER -> TRUE

\* the keys "0", "1", ... of an array's items
IndexKey(i) == ToString(i - 1)

\* the own enumerable properties of v, as the spread {...v} copies them
OwnProps(v) ==
    CASE v[1] = "object" -> v[2]
      [] v[1] = "array" ->
            [x \in {IndexKey(i) : i \in 1..Len(v[2])} |->
                v[2][CHOOSE i \in 1..Len(v[2]) : IndexKey(i) = x]]
      [] OTHER -> NoProps

\* v.key: a property read (undefined when there is no such property)
Get(v, key) ==
    IF v[1] = "object" /\ key \in DOMAIN v[2] THEN v[2][key] ELSE Undefined

\* {...f, ...g} on property maps
Spread(f, g) ==
    [x \in (DOMAIN f) \cup (DOMAIN g) |-> IF x \in DOMAIN g THEN g[x] ELSE f[x]]

(***************************************************************************)
(* JSON. A text is absent (getItem gave null), empty (""), garbage (no     *)
(* JSON text) or the JSON text of one JSON value.                          *)
(***************************************************************************)
RawText(t, json) == [t |-> t, json |-> json]
NoItem == RawText("absent", Null)
EmptyText == RawText("empty", Null)
Garbage == RawText("garbage", Null)
JsonText(v) == RawText("json", v)

\* SerializeJSONProperty: the JSON value that JSON.stringify writes for v.
\* A property whose value is undefined is left out, an undefined array item
\* and a non-finite number are written as null.
RECURSIVE ToJSON(_)
ToJSON(v) ==
    CASE v[1] = "object" ->
            Obj([x \in {y \in DOMAIN v[2] : v[2][y][1] # "undefined"} |-> ToJSON(v[2][x])])
      [] v[1] = "array" -> Arr([i \in 1..Len(v[2]) |-> ToJSON(v[2][i])])
      [] v[1] \in {"undefined", "infinity"} -> Null
      [] OTHER -> v

\* JSON.stringify(v) for an object v
JSONstringify(v) == JsonText(ToJSON(v))

\* JSON.parse(text): ok is FALSE when it throws SyntaxError
JSONparse(text) ==
    IF text.t = "json" THEN [ok |-> TRUE, value |-> text.json]
    ELSE [ok |-> FALSE, value |-> Undefined]

(***************************************************************************)
(* core/state.ts                                                           *)
(***************************************************************************)
weekdays == <<"mon", "tue", "wed", "thu", "fri", "sat", "sun">>
Weekday == {weekdays[i] : i \in 1..Len(weekdays)}

defaultWeeklySchedule == Obj([d \in Weekday |-> Arr(<<>>)])

defaultPayload == Obj([skills |-> Arr(<<>>), sessions |-> Arr(<<>>), overrides |-> Arr(<<>>)])

(***************************************************************************)
(* core/storage.ts                                                         *)
(***************************************************************************)
AppData(updatedAtIso, payload) ==
    Obj([version |-> Num(1), updatedAtIso |-> updatedAtIso, payload |-> payload])

\* nowIso() at instant t
nowIso(t) == IsoString(t)

\* normalizePayload with the arrays of skills and sessions taken from each other
normalizePayloadSwapped(payload) ==
    LET base == defaultPayload
        ArrayOrEmpty(x) == IF IsArray(x) THEN x ELSE Arr(<<>>)
    IN  IF ~Truthy(payload) \/ TypeOf(payload) # "object" THEN base
        ELSE Obj(Spread(Spread(base[2], OwnProps(payload)),
                        [skills |-> ArrayOrEmpty(Get(payload, "sessions")),
                         sessions |-> ArrayOrEmpty(Get(payload, "skills")),
                         overrides |-> ArrayOrEmpty(Get(payload, "overrides"))]))

\* normalizePayload without the spread of the payload's own properties
normalizePayloadThreeFields(payload) ==
    LET base == defaultPayload
        ArrayOrEmpty(x) == IF IsArray(x) THEN x ELSE Arr(<<>>)
    IN  IF ~Truthy(payload) \/ TypeOf(payload) # "object" THEN base
        ELSE Obj(Spread(base[2],
                        [skills |-> ArrayOrEmpty(Get(payload, "skills")),
                         sessions |-> ArrayOrEmpty(Get(payload, "sessions")),
                         overrides |-> ArrayOrEmpty(Get(payload, "overrides"))]))

normalizePayload(payload) ==
    LET base == defaultPayload
        ArrayOrEmpty(x) == IF IsArray(x) THEN x ELSE Arr(<<>>)
    IN  IF ~Truthy(payload) \/ TypeOf(payload) # "object" THEN base
        ELSE Obj(Spread(Spread(base[2], OwnProps(payload)),
                        [skills |-> ArrayOrEmpty(Get(payload, "skills")),
                         sessions |-> ArrayOrEmpty(Get(payload, "sessions")),
                         overrides |-> ArrayOrEmpty(Get(payload, "overrides"))]))

\* the shape check of loadAppData and importBackup on a parsed document
isValid(parsed) ==
    /\ Truthy(parsed)
    /\ Get(parsed, "version") = Num(1)
    /\ TypeOf(Get(parsed, "updatedAtIso")) = "string"

\* loadAppData that also wants payload to be an object
loadAppDataStrict(raw, t) ==
    LET fresh == AppData(nowIso(t), defaultPayload)
        parsed == JSONparse(raw)
    IN  IF raw.t \in {"absent", "empty"} THEN fresh
        ELSE IF ~parsed.ok THEN fresh
        ELSE IF ~isValid(parsed.value) \/ TypeOf(Get(parsed.value, "payload")) # "object"
            THEN fresh
        ELSE AppData(Get(parsed.value, "updatedAtIso"),
                     normalizePayload(Get(parsed.value, "payload")))

\* loadAppData() with the slot holding raw, at instant t
loadAppData(raw, t) ==
    LET fresh == AppData(nowIso(t), defaultPayload)
        parsed == JSONparse(raw)
    IN  IF raw.t \in {"absent", "empty"} THEN fresh
        ELSE IF ~parsed.ok THEN fresh
        ELSE IF ~isValid(parsed.value) THEN fresh
        ELSE AppData(IF TypeOf(Get(parsed.value, "updatedAtIso")) = "string"
                        THEN Get(parsed.value, "updatedAtIso") ELSE nowIso(t),
                     normalizePayload(Get(parsed.value, "payload")))

\* saveAppData that spreads data and forgets to stamp it
saveAppDataUnstamped(data, t) ==
    LET toSave == AppData(Get(data, "updatedAtIso"), normalizePayload(Get(data, "payload")))
    IN  [ret |-> toSave, item |-> JSONstringify(toSave)]

\* saveAppData(data) at instant t: the value returned and the item written
saveAppData(data, t) ==
    LET toSave == AppData(nowIso(t), normalizePayload(Get(data, "payload")))
    IN  [ret |-> toSave, item |-> JSONstringify(toSave)]

\* exportBackup(data) at instant t: the text of the blob given to the browser
\* (the file name, made from the clock by formatForFilename, is left out)
exportBackup(data, t) ==
    LET safe == AppData(nowIso(t), normalizePayload(Get(data, "payload")))
    IN  JSONstringify(safe)

InvalidBackupMessage == "Invalid backup file format (expected version 1)."
\* the message of the SyntaxError JSON.parse throws (engine-defined text)
SyntaxErrorMessage == "Unexpected token in JSON"

\* importBackup that compares the version with == (so "1" passes)
importBackupLooseVersion(text, t) ==
    LET parsed == JSONparse(text)
        looselyValid ==
            /\ Truthy(parsed.value)
            /\ Get(parsed.value, "version") \in {Num(1), Str("1")}
            /\ TypeOf(Get(parsed.value, "updatedAtIso")) = "string"
    IN  IF ~parsed.ok
            THEN [ok |-> FALSE, value |-> Undefined, message |-> SyntaxErrorMessage]
        ELSE IF ~looselyValid
            THEN [ok |-> FALSE, value |-> Undefined, message |-> InvalidBackupMessage]
        ELSE [ok |-> TRUE,
              value |-> AppData(Get(parsed.value, "updatedAtIso"),
                                normalizePayload(Get(parsed.value, "payload"))),
              message |-> ""]

\* importBackup that checks the version only
importBackupVersionOnly(text, t) ==
    LET parsed == JSONparse(text)
    IN  IF ~parsed.ok
            THEN [ok |-> FALSE, value |-> Undefined, message |-> SyntaxErrorMessage]
        ELSE IF ~(Truthy(parsed.value) /\ Get(parsed.value, "version") = Num(1))
            THEN [ok |-> FALSE, value |-> Undefined, message |-> InvalidBackupMessage]
        ELSE [ok |-> TRUE,
              value |-> AppData(IF TypeOf(Get(parsed.value, "updatedAtIso")) = "string"
                                   THEN Get(parsed.value, "updatedAtIso") ELSE nowIso(t),
                                normalizePayload(Get(parsed.value, "payload"))),
              message |-> ""]

\* importBackup that returns the payload as the file holds it
importBackupUnnormalized(text, t) ==
    LET parsed == JSONparse(text)
    IN  IF ~parsed.ok
            THEN [ok |-> FALSE, value |-> Undefined, message |-> SyntaxErrorMessage]
        ELSE IF ~isValid(parsed.value)
            THEN [ok |-> FALSE, value |-> Undefined, message |-> InvalidBackupMessage]
        ELSE [ok |-> TRUE,
              value |-> AppData(Get(parsed.value, "updatedAtIso"),
                                Get(parsed.value, "payload")),
              message |-> ""]

\* importBackup(file) with file.text() resolved to text, at instant t:
\* ok with the AppData returned, or the message of the Error thrown
importBackup(text, t) ==
    LET parsed == JSONparse(text)
    IN  IF ~parsed.ok
            THEN [ok |-> FALSE, value |-> Undefined, message |-> SyntaxErrorMessage]
        ELSE IF ~isValid(parsed.value)
            THEN [ok |-> FALSE, value |-> Undefined, message |-> InvalidBackupMessage]
        ELSE [ok |-> TRUE,
              value |-> AppData(IF TypeOf(Get(parsed.value, "updatedAtIso")) = "string"
                                   THEN Get(parsed.value, "updatedAtIso") ELSE nowIso(t),
                                normalizePayload(Get(parsed.value, "payload"))),
              message |-> ""]

(***************************************************************************)
(* App.tsx: helpers of the handlers                                        *)
(***************************************************************************)
Whitespace == {" ", "\t"}

\* String.prototype.trim
RECURSIVE TrimStart(_)
TrimStart(s) ==
    IF Len(s) > 0 /\ SubSeq(s, 1, 1) \in Whitespace
        THEN TrimStart(SubSeq(s, 2, Len(s))) ELSE s
RECURSIVE TrimEnd(_)
TrimEnd(s) ==
    IF Len(s) > 0 /\ SubSeq(s, Len(s), Len(s)) \in Whitespace
        THEN TrimEnd(SubSeq(s, 1, Len(s) - 1)) ELSE s
trim(s) == TrimEnd(TrimStart(s))

\* id(): the k-th value of crypto.randomUUID()
id(k) == Str("uuid-" \o ToString(k))

\* a === b on the values compared here (primitives)
StrictEquals(a, b) == a = b

\* { ...app, payload: { ...app.payload, [key]: value } }
WithPayloadField(data, key, value) ==
    Obj(Spread(OwnProps(data),
               [payload |-> Obj(Spread(OwnProps(Get(data, "payload")),
                                       [x \in {key} |-> value]))]))

\* the Skill that addSkill builds from the trimmed name, the k-th id, at instant t
newSkill(trimmed, k, t) ==
    Obj([id |-> id(k),
         name |-> Str(trimmed),
         schedule |-> defaultWeeklySchedule,
         createdAtIso |-> nowIso(t),
         updatedAtIso |-> nowIso(t),
         dailyGoalMinutes |-> Num(30),
         weeklyGoalMinutes |-> Num(180),
         priority |-> Num(2)])

\* updateSkill's map that overlays the patch and leaves updatedAtIso as it was
updatedSkillsUnstamped(skills, skillId, patch, t) ==
    LET f(sk) == IF StrictEquals(Get(sk, "id"), skillId)
                    THEN Obj(Spread(OwnProps(sk), patch))
                    ELSE sk
    IN  [i \in 1..Len(skills) |-> f(skills[i])]

\* the skills sequence updateSkill(skillId, patch) builds, at instant t
updatedSkills(skills, skillId, patch, t) ==
    LET f(sk) == IF StrictEquals(Get(sk, "id"), skillId)
                    THEN Obj(Spread(Spread(OwnProps(sk), patch),
                                    [updatedAtIso |-> nowIso(t)]))
                    ELSE sk
    IN  [i \in 1..Len(skills) |-> f(skills[i])]

(***************************************************************************)
(* The documents a slot or a backup file may hold.                         *)
(***************************************************************************)
\* a well-formed skill, as an earlier export wrote it
storedSkill ==
    Obj([id |-> Str("uuid-0"),
         name |-> Str("sql"),
         schedule |-> defaultWeeklySchedule,
         createdAtIso |-> nowIso(0),
         updatedAtIso |-> nowIso(0),
         priority |-> Num(1)])

\* an object of a skills array written by hand, with no schedule
unscheduledSkill == Obj([id |-> Str("uuid-9"), name |-> Str("art")])

DocVersions == {Undefined, Num(1), Num(2), Str("1")}
DocStamps == {Undefined, IsoString(0), Str("banana"), Num(5)}
DocPayloads ==
    {Undefined, Null, Str("x"), Obj(NoProps), Obj([skills |-> Str("x")]),
     Obj([skills |-> Arr(<<storedSkill>>), sessions |-> Arr(<<>>),
          overrides |-> Arr(<<>>), theme |-> Str("dark")])}

\* the object with the given fields; a field given as undefined is absent
Document(version, updatedAtIso, payload) ==
    LET all == [version |-> version, updatedAtIso |-> updatedAtIso, payload |-> payload]
    IN  Obj([x \in {y \in DOMAIN all : all[y] # Undefined} |-> all[x]])

Documents ==
    {Document(v, u, p) : v \in DocVersions, u \in DocStamps, p \in DocPayloads}
        \cup {Null, Num(5), Arr(<<>>)}

FileTexts == {Garbage, EmptyText} \cup {JsonText(d) : d \in Documents}

\* the backup files the user picks: one of each kind of document
BackupFiles ==
    {Garbage,
     JsonText(Null),
     JsonText(Document(Undefined, IsoString(0), Obj(NoProps))),
     JsonText(Document(Str("1"), IsoString(0), Obj(NoProps))),
     JsonText(Document(Num(2), IsoString(0), Obj(NoProps))),
     JsonText(Document(Num(1), Undefined, Obj(NoProps))),
     JsonText(Document(Num(1), Num(5), Obj(NoProps))),
     JsonText(Document(Num(1), Str("banana"), Obj([skills |-> Str("x")]))),
     JsonText(Document(Num(1), IsoString(0), Undefined)),
     JsonText(Document(Num(1), IsoString(0),
                       Obj([skills |-> Arr(<<storedSkill>>), theme |-> Str("dark")]))),
     JsonText(Document(Num(1), IsoString(0),
                       Obj([skills |-> Arr(<<unscheduledSkill>>)])))}

\* what the slot may hold when the page is opened
InitialItems == {NoItem} \cup FileTexts

(***************************************************************************)
(* App.tsx: the App component                                              *)
(***************************************************************************)
NoSave == [called |-> FALSE, data |-> Undefined, ret |-> Undefined]
NoResult == [ok |-> TRUE, value |-> Undefined, message |-> ""]
Op(name, arg, res, save, t) ==
    [op |-> name, arg |-> arg, res |-> res, save |-> save, at |-> t]

\* a call of one of the pure functions: its arguments and what it returned
Call(fn, args, result) == [fn |-> fn, args |-> args, result |-> result]
NoCall == Call("none", <<>>, Undefined)

\* the components are not observed: no memo is held
NoRows == [threw |-> FALSE, rows |-> <<>>]
NoView == [page |-> "none", rows |-> NoRows, editors |-> <<>>]

\* useState initializer of App: the snapshot the page opens with
initialApp(raw, t) ==
    LET loaded == loadAppData(raw, t)
    IN  IF ~Truthy(Get(loaded, "payload"))
            THEN Obj(Spread(OwnProps(loaded), [payload |-> defaultPayload]))
            ELSE loaded

Init ==
    /\ store \in InitialItems
    /\ now = 0
    /\ app = initialApp(store, now)
    /\ error = Null
    /\ pending = 0
    /\ download = NoItem
    /\ uuids = 0
    /\ last = Op("load", store, NoResult, NoSave, now)
    /\ call = NoCall
    /\ view = NoView

\* the page is opened again: App is constructed anew from the slot
Reload ==
    /\ app' = initialApp(store, now)
    /\ error' = Null
    /\ pending' = 0
    /\ download' = NoItem
    /\ last' = Op("load", store, NoResult, NoSave, now)
    /\ UNCHANGED <<store, now, uuids, call, view>>

\* a commit that adopts the snapshot it is given without saving it
commitWithoutSave(next) ==
    /\ store' = store
    /\ app' = next

\* commit(next): saveAppData(next), then setApp(saved)
commit(next) ==
    LET saved == saveAppData(next, now)
    IN  /\ store' = saved.item
        /\ app' = saved.ret

Saved(next) == [called |-> TRUE, data |-> next, ret |-> saveAppData(next, now).ret]

saveNow ==
    /\ error' = Null
    /\ commit(app)
    /\ download' = NoItem
    /\ last' = Op("onSaveNow", NoItem, NoResult, Saved(app), now)
    /\ UNCHANGED <<pending, uuids, call, view>>

onSaveNow == saveNow /\ UNCHANGED now

\* onExport that exports the snapshot without saving it first
onExportWithoutSave ==
    /\ error' = Null
    /\ download' = exportBackup(app, now)
    /\ last' = Op("onExport", NoItem, NoResult, NoSave, now)
    /\ UNCHANGED <<store, app, now, pending, uuids, call, view>>

onExport ==
    LET saved == saveAppData(app, now)
    IN  /\ error' = Null
        /\ store' = saved.item
        /\ app' = saved.ret
        /\ download' = exportBackup(saved.ret, now)
        /\ last' = Op("onExport", NoItem, NoResult, Saved(app), now)
        /\ UNCHANGED <<now, pending, uuids, call, view>>

\* onPickImportFile up to the await: a file was picked and is being read
onPickImportFile ==
    /\ pending < MaxPending
    /\ error' = Null
    /\ pending' = pending + 1
    /\ download' = NoItem
    /\ last' = Op("onPickImportFile", NoItem, NoResult, NoSave, now)
    /\ UNCHANGED <<store, app, now, uuids, call, view>>

\* onPickImportFile with no file picked
onPickNoFile ==
    /\ error' = Null
    /\ download' = NoItem
    /\ last' = Op("onPickNoFile", NoItem, NoResult, NoSave, now)
    /\ UNCHANGED <<store, app, now, pending, uuids, call, view>>

\* the resumed onPickImportFile falling back to the default snapshot on failure
importResumedResetting ==
    /\ pending > 0
    /\ \E text \in BackupFiles :
        LET imported == importBackup(text, now)
        IN  /\ IF imported.ok
                  THEN /\ commit(imported.value)
                       /\ error' = error
                       /\ last' = Op("import", text, imported, Saved(imported.value), now)
                  ELSE /\ error' = Str(imported.message)
                       /\ last' = Op("import", text, imported, NoSave, now)
                       /\ app' = AppData(nowIso(now), defaultPayload)
                       /\ UNCHANGED store
    /\ pending' = pending - 1
    /\ download' = NoItem
    /\ UNCHANGED <<now, uuids, call, view>>

\* onPickImportFile after the await: file.text() has resolved to text
importResumed ==
    /\ pending > 0
    /\ \E text \in BackupFiles :
        LET imported == importBackup(text, now)
        IN  /\ IF imported.ok
                  THEN /\ commit(imported.value)
                       /\ error' = error
                       /\ last' = Op("import", text, imported, Saved(imported.value), now)
                  ELSE /\ error' = Str(imported.message)
                       /\ last' = Op("import", text, imported, NoSave, now)
                       /\ UNCHANGED <<store, app>>
    /\ pending' = pending - 1
    /\ download' = NoItem
    /\ UNCHANGED <<now, uuids, call, view>>

\* the patches the priority select of SkillEditor passes to onUpdate
PriorityPatches == {[priority |-> Undefined], [priority |-> Num(3)]}

updateSkill ==
    LET skills == Get(Get(app, "payload"), "skills")[2]
    IN  \E i \in 1..Len(skills), patch \in PriorityPatches :
            LET next == WithPayloadField(app, "skills",
                            Arr(updatedSkills(skills, Get(skills[i], "id"), patch, now)))
            IN  /\ commit(next)
                /\ download' = NoItem
                /\ last' = Op("updateSkill", NoItem, NoResult, Saved(next), now)
                /\ UNCHANGED <<error, now, pending, uuids, call, view>>

Tick ==
    /\ now < MaxNow
    /\ now' = now + 1
    /\ UNCHANGED <<store, app, error, pending, download, uuids, last, call, view>>

Next ==
    \/ Reload
    \/ onSaveNow
    \/ onExport
    \/ onPickImportFile
    \/ onPickNoFile
    \/ importResumed
    \/ updateSkill
    \/ Tick

Spec == Init /\ [][Next]_vars

(***************************************************************************)
(* Properties                                                              *)
(***************************************************************************)
\* v holds only what a JSON text can carry: no undefined, no non-finite number
RECURSIVE IsJSONValue(_)
IsJSONValue(v) ==
    CASE v[1] = "object" -> \A x \in DOMAIN v[2] : IsJSONValue(v[2][x])
      [] v[1] = "array" -> \A i \in 1..Len(v[2]) : IsJSONValue(v[2][i])
      [] v[1] \in {"undefined", "infinity"} -> FALSE
      [] OTHER -> TRUE

\* what saveAppData was given (d) and returned (s) in the last handler
SavedData == last.save.data
SavedRet == last.save.ret

\* C1, as claimed: after saveAppData(d) returned s, the slot holds s and
\* loadAppData() returns a snapshot equal to s in version, updatedAtIso and
\* payload; s.payload is normalizePayload(d.payload) and s.updatedAtIso is the
\* time of the save.
C1_SaveLoadRoundTrip ==
    last.save.called =>
        LET loaded == loadAppData(store, now)
        IN  /\ store = JSONstringify(SavedRet)
            /\ Get(loaded, "version") = Get(SavedRet, "version")
            /\ Get(loaded, "updatedAtIso") = Get(SavedRet, "updatedAtIso")
            /\ Get(loaded, "payload") = Get(SavedRet, "payload")
            /\ Get(SavedRet, "payload") = normalizePayload(Get(SavedData, "payload"))
            /\ Get(SavedRet, "updatedAtIso") = nowIso(last.at)

\* C1, amended: loadAppData() returns s as JSON carries it. Version and
\* updatedAtIso are those of s; the payload is that of s with every property
\* whose value is undefined left out and every non-finite number read as null,
\* so it equals s.payload whenever s.payload holds neither.
C1_SaveLoadRoundTripAsJSON ==
    last.save.called =>
        LET loaded == loadAppData(store, now)
        IN  /\ store = JSONstringify(SavedRet)
            /\ Get(loaded, "version") = Get(SavedRet, "version")
            /\ Get(loaded, "updatedAtIso") = Get(SavedRet, "updatedAtIso")
            /\ Get(loaded, "payload") = ToJSON(Get(SavedRet, "payload"))
            /\ IsJSONValue(Get(SavedRet, "payload"))
                    => Get(loaded, "payload") = Get(SavedRet, "payload")
            /\ Get(SavedRet, "payload") = normalizePayload(Get(SavedData, "payload"))
            /\ Get(SavedRet, "updatedAtIso") = nowIso(last.at)

\* the saved snapshot holds a skill whose priority was set to undefined, the
\* clock has moved on since, and loadAppData() gives a snapshot other than s
C1_Witness ==
    /\ last.save.called
    /\ last.at < now
    /\ ~IsJSONValue(Get(SavedRet, "payload"))
    /\ loadAppData(store, now) # SavedRet
    /\ Get(loadAppData(store, now), "updatedAtIso") = nowIso(last.at)

\* v is an object with a property key
Has(v, key) == v[1] = "object" /\ key \in DOMAIN v[2]

\* the fresh default snapshot made at instant t
FreshDefault(t) ==
    Obj([version |-> Num(1),
         updatedAtIso |-> IsoString(t),
         payload |-> Obj([skills |-> Arr(<<>>), sessions |-> Arr(<<>>),
                          overrides |-> Arr(<<>>)])])

\* the slot as the last loadAppData() found it
LoadedItem == last.arg

ImportedText == last.arg
ImportResult == last.res

\* C3: importBackup of a document whose version is not 1 (version 2, "1", no
\* version field, a document that is no object) fails with the message
\* "Invalid backup file format (expected version 1)." and returns no snapshot.
C3_ImportRejectsOtherVersions ==
    (/\ last.op = "import"
     /\ ImportedText.t = "json"
     /\ Get(ImportedText.json, "version") # Num(1))
        => /\ ~ImportResult.ok
           /\ ImportResult.message = "Invalid backup file format (expected version 1)."
           /\ ImportResult.value = Undefined
           /\ error = Str("Invalid backup file format (expected version 1).")

\* a version 2 document was imported and the message is shown
C3_Witness ==
    /\ last.op = "import"
    /\ ImportedText.t = "json"
    /\ Get(ImportedText.json, "version") = Num(2)
    /\ ~ImportResult.ok
    /\ error = Str(InvalidBackupMessage)

\* the steps of onPickImportFile: up to the await, and after it
ImportStarts == last'.op = "onPickImportFile" /\ pending' = pending + 1
ImportResumes == last'.op = "import" /\ pending' = pending - 1

\* C4: a failed import changes no state: neither the step that starts it nor
\* the step in which it fails changes the in-memory snapshot or the slot; the
\* first clears the error message and the second sets it.
C4_FailedImportChangesNothing ==
    [][/\ ImportStarts => (app' = app /\ store' = store /\ error' = Null)
       /\ (ImportResumes /\ ~last'.res.ok)
            => /\ app' = app
               /\ store' = store
               /\ error' = Str(last'.res.message)
               /\ UNCHANGED <<now, uuids, call, view>>]_vars

\* an import has failed while the snapshot holds a skill and the slot a document
C4_Witness ==
    /\ last.op = "import"
    /\ ~ImportResult.ok
    /\ error = Str(ImportResult.message)
    /\ Get(Get(app, "payload"), "skills") # Arr(<<>>)
    /\ store.t = "json"

\* C5, as claimed: importBackup of a document whose updatedAtIso is not a
\* recognizable time string (missing, no string, or a string that denotes no
\* time) fails with "Invalid backup file format (expected version 1)." and
\* changes no state, even when version is 1.
C5_ImportRejectsBadTimestamp ==
    [][(/\ ImportResumes
        /\ last'.arg.t = "json"
        /\ Get(last'.arg.json, "updatedAtIso")[1] # "isostring")
            => /\ ~last'.res.ok
               /\ error' = Str("Invalid backup file format (expected version 1).")
               /\ app' = app
               /\ store' = store]_vars

\* C5, amended: importBackup of a document whose updatedAtIso is missing or is
\* no string fails with that message and changes no state, even when version is
\* 1; a string that denotes no time is accepted: with version 1 the import
\* succeeds and returns that string as updatedAtIso.
C5_ImportRejectsNonStringTimestamp ==
    [][(ImportResumes /\ last'.arg.t = "json")
            => /\ TypeOf(Get(last'.arg.json, "updatedAtIso")) # "string"
                    => /\ ~last'.res.ok
                       /\ error' = Str("Invalid backup file format (expected version 1).")
                       /\ app' = app
                       /\ store' = store
               /\ (/\ Get(last'.arg.json, "version") = Num(1)
                   /\ Get(last'.arg.json, "updatedAtIso")[1] = "string")
                    => /\ last'.res.ok
                       /\ Get(last'.res.value, "updatedAtIso")
                            = Get(last'.arg.json, "updatedAtIso")]_vars

\* a version 1 document whose updatedAtIso is a number was imported and refused
C5_Witness ==
    /\ last.op = "import"
    /\ ImportedText.t = "json"
    /\ Get(ImportedText.json, "version") = Num(1)
    /\ Get(ImportedText.json, "updatedAtIso") = Num(5)
    /\ ~ImportResult.ok
    /\ error = Str(InvalidBackupMessage)

\* the step of onExport
Exports == last'.op = "onExport" /\ download' # NoItem /\ pending' = pending /\ now' = now

\* C8, as claimed: after the user triggers an export, the in-memory snapshot
\* (version, updatedAtIso, payload) and the slot are the same as before it.
C8_ExportKeepsState ==
    [][Exports => (app' = app /\ store' = store)]_vars

\* C8, amended: onExport saves before it exports. Version and payload of the
\* in-memory snapshot stay as they were, its updatedAtIso becomes the time of
\* the export and the slot is overwritten with that snapshot; the exported
\* document is a separate normalized copy stamped with the time of the export.
C8_ExportSavesFirst ==
    [][Exports
        => /\ Get(app', "version") = Get(app, "version")
           /\ Get(app', "payload") = Get(app, "payload")
           /\ Get(app', "updatedAtIso") = IsoString(now)
           /\ store' = JSONstringify(app')
           /\ download'.t = "json"
           /\ Get(download'.json, "version") = Num(1)
           /\ Get(download'.json, "updatedAtIso") = IsoString(now)
           /\ Get(download'.json, "payload") = ToJSON(normalizePayload(Get(app, "payload")))]_vars

\* an export was made of a snapshot with a skill, later than its last save:
\* the snapshot now carries the time of the export
C8_Witness ==
    /\ last.op = "onExport"
    /\ download # NoItem
    /\ Get(Get(app, "payload"), "skills") # Arr(<<>>)
    /\ Get(SavedData, "updatedAtIso") # Get(app, "updatedAtIso")
    /\ Get(app, "updatedAtIso") = IsoString(last.at)
    /\ store = JSONstringify(app)

(***************************************************************************)
(* normalizePayload as a function of its argument                          *)
(***************************************************************************)
\* the App component stays as the page opened it while a pure function runs
appVars == <<store, app, error, now, pending, download, uuids, last, view>>
Opened ==
    /\ store = NoItem
    /\ now = 0
    /\ app = initialApp(store, now)
    /\ error = Null
    /\ pending = 0
    /\ download = NoItem
    /\ uuids = 0
    /\ last = Op("load", store, NoResult, NoSave, now)
    /\ view = NoView

\* the values a field of a parsed payload may hold
FieldValues ==
    {Undefined, Null, Str("x"), Obj(NoProps), Arr(<<>>), Arr(<<storedSkill>>)}
PayloadKeys == {"skills", "sessions", "overrides", "theme"}
SequenceKeys == {"skills", "sessions", "overrides"}

\* the arguments of normalizePayload (payload: unknown): objects with any of
\* the keys, each holding any of the values, and values that are no objects
Payloads ==
    {Obj(f) : f \in UNION {[keys -> FieldValues] : keys \in SUBSET PayloadKeys}}
        \cup {Undefined, Null, Num(0), Num(7), Str(""), Str("x"), IsoString(0),
              Infinity, Arr(<<>>), Arr(<<Str("x"), storedSkill>>)}

InitNormalize ==
    /\ Opened
    /\ call \in {Call("input", <<p>>, Undefined) : p \in Payloads}

\* normalizePayload(p)
Normalize ==
    /\ call.fn = "input"
    /\ call' = Call("normalizePayload", call.args, normalizePayload(call.args[1]))
    /\ UNCHANGED appVars

\* normalizePayload(r) for the r the first call returned
NormalizeAgain ==
    /\ call.fn = "normalizePayload"
    /\ Len(call.args) = 1
    /\ call' = Call("normalizePayload", Append(call.args, call.result),
                    normalizePayload(call.result))
    /\ UNCHANGED appVars

NextNormalize == Normalize \/ NormalizeAgain

SpecNormalize == InitNormalize /\ [][NextNormalize]_vars

\* C6: normalizePayload is idempotent: for every input p,
\* normalizePayload(normalizePayload(p)) equals normalizePayload(p).
C6_NormalizeIdempotent ==
    (call.fn = "normalizePayload" /\ Len(call.args) = 2)
        => /\ call.args[2] = normalizePayload(call.args[1])
           /\ call.result = call.args[2]

\* normalizePayload ran twice on an object whose skills is no array, whose
\* sessions is an array with an item and which has an extra field
C6_Witness ==
    /\ call.fn = "normalizePayload"
    /\ Len(call.args) = 2
    /\ call.args[1] # call.args[2]
    /\ Get(call.args[1], "skills") = Str("x")
    /\ Get(call.args[1], "sessions") = Arr(<<storedSkill>>)
    /\ Get(call.args[1], "theme") = Str("x")
    /\ call.result = call.args[2]

\* C7: normalizePayload never fails and returns a payload whose skills,
\* sessions and overrides are arrays: each of them given as an array is kept,
\* each one missing or holding another value becomes the empty array, every
\* other field given is carried over unchanged, and null or a value that is no
\* object gives the default empty payload.
C7_NormalizeResult ==
    (call.fn = "normalizePayload") =>
        LET p == call.args[Len(call.args)]
            r == call.result
            given == OwnProps(p)
        IN  /\ r[1] = "object"
            /\ \A k \in SequenceKeys :
                /\ k \in DOMAIN r[2]
                /\ r[2][k][1] = "array"
                /\ (p[1] = "object" /\ k \in DOMAIN p[2] /\ p[2][k][1] = "array")
                        => r[2][k] = p[2][k]
                /\ ~(p[1] = "object" /\ k \in DOMAIN p[2] /\ p[2][k][1] = "array")
                        => r[2][k] = Arr(<<>>)
            /\ p[1] \in {"object", "array"}
                    => /\ DOMAIN r[2] = SequenceKeys \cup DOMAIN given
                       /\ \A x \in (DOMAIN given) \ SequenceKeys : r[2][x] = given[x]
            /\ p[1] \notin {"object", "array"}
                    => r = Obj([k \in SequenceKeys |-> Arr(<<>>)])

\* normalizePayload ran on an object with one array kept, one field missing,
\* one holding null and an extra field
C7_Witness ==
    /\ call.fn = "normalizePayload"
    /\ Len(call.args) = 1
    /\ call.args[1] = Obj([skills |-> Arr(<<storedSkill>>), overrides |-> Null,
                           theme |-> Str("x")])
    /\ call.result = Obj([skills |-> Arr(<<storedSkill>>), sessions |-> Arr(<<>>),
                          overrides |-> Arr(<<>>), theme |-> Str("x")])

(***************************************************************************)
(* App.tsx: the completion engine                                          *)
(***************************************************************************)
MaxMinutes == 10
MaxBlocks == 2

\* the character c is one of "0".."9" (\d)
IsDigit(c) == \E d \in 0..9 : ToString(d) = c

\* Number(text) for a text of two digits
NumberOfDigits(text) ==
    LET value(c) == CHOOSE d \in 0..9 : ToString(d) = c
    IN  10 * value(SubSeq(text, 1, 1)) + value(SubSeq(text, 2, 2))

\* /^(\d{2}):(\d{2})$/.exec(hhmm): the two groups, or <<>> for no match
ExecHHMM(hhmm) ==
    IF /\ Len(hhmm) = 5
       /\ \A i \in {1, 2, 4, 5} : IsDigit(SubSeq(hhmm, i, i))
       /\ SubSeq(hhmm, 3, 3) = ":"
        THEN <<SubSeq(hhmm, 1, 2), SubSeq(hhmm, 4, 5)>>
        ELSE <<>>

\* parseHHMMToMinutes putting a text that is no "HH:MM" after the end of the day
parseHHMMToMinutesEndOfDay(hhmm) ==
    LET m == ExecHHMM(hhmm)
    IN  IF m = <<>> THEN 24 * 60
        ELSE LET hh == NumberOfDigits(m[1])
                 mm == NumberOfDigits(m[2])
             IN  hh * 60 + mm

parseHHMMToMinutes(hhmm) ==
    LET m == ExecHHMM(hhmm)
    IN  IF m = <<>> THEN 0
        ELSE LET hh == NumberOfDigits(m[1])
                 mm == NumberOfDigits(m[2])
             IN  hh * 60 + mm

\* a Date, as getHours() and getMinutes() show it
Date(hours, minutes) == [hours |-> hours, minutes |-> minutes]

minutesSinceMidnight(d) == d.hours * 60 + d.minutes

\* Number.isInteger(v)
NumberIsInteger(v) == v[1] = "number"

\* blocks.reduce((sum, b) => sum + (Number.isInteger(b.minutes) ? b.minutes : 0), sum)
RECURSIVE ReduceMinutes(_, _)
ReduceMinutes(blocks, sum) ==
    IF blocks = <<>> THEN sum
    ELSE LET minutes == Get(Head(blocks), "minutes")
         IN  ReduceMinutes(Tail(blocks),
                           sum + (IF NumberIsInteger(minutes) THEN minutes[2] ELSE 0))

\* expectedMinutesByNow counting only the blocks that started before this minute
expectedMinutesByNowBefore(blocks, d) ==
    LET nowMin == minutesSinceMidnight(d)
        started(b) == parseHHMMToMinutes(Get(b, "startTime")[2]) < nowMin
    IN  ReduceMinutes(SelectSeq(blocks, started), 0)

expectedMinutesByNow(blocks, d) ==
    LET nowMin == minutesSinceMidnight(d)
        started(b) == parseHHMMToMinutes(Get(b, "startTime")[2]) <= nowMin
    IN  ReduceMinutes(SelectSeq(blocks, started), 0)

\* status of a row of Dashboard
rowStatus(todayMinutes, expectedByNow) ==
    IF expectedByNow = 0 THEN "idle"
    ELSE IF todayMinutes >= expectedByNow THEN "onTrack"
    ELSE "overdue"

\* completion.status of SkillEditor wanting more than the expected minutes
completionStatusStrict(todayMinutes, expectedByNow) ==
    IF expectedByNow = 0 THEN "idle"
    ELSE IF todayMinutes > expectedByNow THEN "onTrack"
    ELSE "overdue"

\* completion.status of SkillEditor
completionStatus(todayMinutes, expectedByNow) ==
    IF expectedByNow = 0 THEN "idle"
    ELSE IF todayMinutes >= expectedByNow THEN "onTrack"
    ELSE "overdue"

(***************************************************************************)
(* The status derivation as a function of (todayMinutes, expectedByNow)    *)
(***************************************************************************)
InitStatus ==
    /\ Opened
    /\ call \in {Call("input", <<t, e>>, <<>>) : t \in 0..MaxMinutes, e \in 0..MaxMinutes}

\* Dashboard renders the row of the skill
DashboardRows ==
    /\ call.fn = "input"
    /\ call' = Call("Dashboard.rows", call.args,
                    <<rowStatus(call.args[1], call.args[2])>>)
    /\ UNCHANGED appVars

\* SkillEditor renders the skill of that row
SkillEditorCompletion ==
    /\ call.fn = "Dashboard.rows"
    /\ call' = Call("SkillEditor.completion", call.args,
                    Append(call.result, completionStatus(call.args[1], call.args[2])))
    /\ UNCHANGED appVars

NextStatus == DashboardRows \/ SkillEditorCompletion

SpecStatus == InitStatus /\ [][NextStatus]_vars

\* C9: the status is idle when expectedMinutesByNow is 0 whatever todayMinutes
\* is, otherwise onTrack when todayMinutes >= expectedMinutesByNow, otherwise
\* overdue; Dashboard and SkillEditor derive the same status from the same
\* pair.
C9_StatusTriState ==
    LET todayMinutes == call.args[1]
        expected == call.args[2]
        shown == call.result
    IN  (call.fn \in {"Dashboard.rows", "SkillEditor.completion"}) =>
            /\ \A i \in 1..Len(shown) :
                /\ shown[i] \in {"idle", "onTrack", "overdue"}
                /\ shown[i] = "idle" <=> expected = 0
                /\ shown[i] = "onTrack" <=> (expected # 0 /\ todayMinutes >= expected)
                /\ shown[i] = "overdue" <=> (expected # 0 /\ todayMinutes < expected)
            /\ \A i, j \in 1..Len(shown) : shown[i] = shown[j]

\* both views have shown onTrack for todayMinutes equal to a positive
\* expectedMinutesByNow
C9_Witness ==
    /\ call.fn = "SkillEditor.completion"
    /\ call.args[1] = call.args[2]
    /\ call.args[2] > 0
    /\ call.result = <<"onTrack", "onTrack">>

(***************************************************************************)
(* expectedMinutesByNow as a function of (blocks, now)                     *)
(***************************************************************************)
\* times of day as <<hours, minutes>>: midnight, a start, the minute after
\* it, the minute before it and the last minute of the day
Clocks == {<<0, 0>>, <<5, 59>>, <<6, 0>>, <<6, 1>>, <<23, 59>>}
StartClocks == {<<0, 0>>, <<6, 0>>, <<6, 1>>, <<23, 59>>}
BlockMinutes == {30, 45}

\* the zero-padded 24-hour "HH:MM" text of a time of day
TwoDigits(n) == IF n < 10 THEN "0" \o ToString(n) ELSE ToString(n)
ClockText(c) == TwoDigits(c[1]) \o ":" \o TwoDigits(c[2])

\* a ScheduleBlock
Block(c, minutes) ==
    Obj([id |-> Str("b-" \o ClockText(c) \o "-" \o ToString(minutes)),
         startTime |-> Str(ClockText(c)), minutes |-> Num(minutes)])
Blocks == {Block(c, n) : c \in StartClocks, n \in BlockMinutes}
BlockLists == UNION {[1..n -> Blocks] : n \in 0..MaxBlocks}

InitExpected ==
    /\ Opened
    /\ call \in {Call("input", <<blocks, Date(c[1], c[2])>>, <<>>) :
                    blocks \in BlockLists, c \in Clocks}

\* expectedMinutesByNow(blocks, now)
Expected ==
    /\ call.fn = "input"
    /\ call' = Call("expectedMinutesByNow", call.args,
                    <<expectedMinutesByNow(call.args[1], call.args[2])>>)
    /\ UNCHANGED appVars

\* expectedMinutesByNow(blocks, now) once more, with two of the blocks in each
\* other's place
ExpectedReordered ==
    /\ call.fn = "expectedMinutesByNow"
    /\ Len(call.result) = 1
    /\ \E i, j \in 1..Len(call.args[1]) :
        LET blocks == call.args[1]
            swapped == [blocks EXCEPT ![i] = blocks[j], ![j] = blocks[i]]
        IN  /\ i < j
            /\ call' = Call("expectedMinutesByNow", <<swapped, call.args[2]>>,
                            Append(call.result,
                                   expectedMinutesByNow(swapped, call.args[2])))
    /\ UNCHANGED appVars

NextExpected == Expected \/ ExpectedReordered

SpecExpected == InitExpected /\ [][NextExpected]_vars

\* the time of day that a well-formed startTime text denotes
ClockOf(text) == CHOOSE c \in (0..23) \X (0..59) : ClockText(c) = text

\* the sum of the minutes of the blocks at the positions in the set
RECURSIVE MinutesAt(_, _)
MinutesAt(blocks, positions) ==
    IF positions = {} THEN 0
    ELSE LET i == CHOOSE i \in positions : TRUE
         IN  blocks[i][2].minutes[2] + MinutesAt(blocks, positions \ {i})

\* the orders the blocks can be put in
Reorderings(blocks) ==
    LET n == Len(blocks)
    IN  {[i \in 1..n |-> blocks[q[i]]] :
            q \in {f \in [1..n -> 1..n] : \A i, j \in 1..n : f[i] = f[j] => i = j}}

\* C10: expectedMinutesByNow is the sum of the minutes of exactly the blocks
\* whose startTime, as minutes since midnight, is at most the current minutes
\* since midnight: a block starting at the current minute counts, one starting
\* a minute later does not; and it is the same for every order of the blocks.
C10_ExpectedIsSumOfStarted ==
    (call.fn = "expectedMinutesByNow") =>
        LET blocks == call.args[1]
            date == call.args[2]
            startMinutes(i) ==
                LET c == ClockOf(blocks[i][2].startTime[2]) IN c[1] * 60 + c[2]
            started == {i \in 1..Len(blocks) :
                            startMinutes(i) <= date.hours * 60 + date.minutes}
        IN  /\ \A k \in 1..Len(call.result) :
                    call.result[k] = MinutesAt(blocks, started)
            /\ \A reordered \in Reorderings(blocks) :
                    expectedMinutesByNow(reordered, date) = MinutesAt(blocks, started)

\* at 06:00, of a block starting at 06:01 followed by one starting at 06:00,
\* only the second was counted, before and after the two changed places
C10_Witness ==
    /\ call.fn = "expectedMinutesByNow"
    /\ call.args[2] = Date(6, 0)
    /\ call.args[1] = <<Block(<<6, 0>>, 45), Block(<<6, 1>>, 30)>>
    /\ call.result = <<45, 45>>

(***************************************************************************)
(* Time. An instant t is an index of Calendar, which gives its local date  *)
(* and time of day; toISOString() of instants orders as the instants do.   *)
(***************************************************************************)
LocalTime(day, getDay, hours, minutes) ==
    [day |-> day, getDay |-> getDay, hours |-> hours, minutes |-> minutes]

\* a Sunday, the Monday after it and the first minutes of the Tuesday
Calendar ==
    <<LocalTime(0, 0, 0, 0), LocalTime(0, 0, 23, 59),
      LocalTime(1, 1, 0, 0), LocalTime(1, 1, 0, 1), LocalTime(1, 1, 5, 0),
      LocalTime(1, 1, 7, 0),
      LocalTime(2, 2, 0, 0), LocalTime(2, 2, 0, 1)>>
Instants == 0..(Len(Calendar) - 1)

\* new Date() at instant t
NewDate(t) == Calendar[t + 1]

\* d.setHours(0, 0, 0, 0); d.toISOString(): the instant of the local midnight
startOfToday(t) ==
    IsoString(CHOOSE u \in Instants :
                /\ NewDate(u).day = NewDate(t).day
                /\ NewDate(u).hours = 0
                /\ NewDate(u).minutes = 0)

weekdayFromDate(d) ==
    LET map == <<"sun", "mon", "tue", "wed", "thu", "fri", "sat">>
    IN  map[d.getDay + 1]

\* a >= b on strings: texts of instants order as the instants; a text that
\* denotes no time starts with a letter and so is above every text of an instant
StringGte(a, b) ==
    CASE a[1] = "isostring" /\ b[1] = "isostring" -> a[2] >= b[2]
      [] a[1] = "string" /\ b[1] = "isostring" -> TRUE
      [] a[1] = "isostring" /\ b[1] = "string" -> FALSE
      [] OTHER -> FALSE

(***************************************************************************)
(* App.tsx: Dashboard and SkillEditor                                      *)
(***************************************************************************)
\* reading a property of v throws TypeError
Nullish(v) == v[1] \in {"undefined", "null"}

\* sessions.filter(ss => ss.skillId === skill.id && ss.startedAtIso >= startIso)
todaySessionsOf(skill, sessions, t) ==
    LET startIso == startOfToday(t)
        today(ss) == /\ StrictEquals(Get(ss, "skillId"), Get(skill, "id"))
                     /\ StringGte(Get(ss, "startedAtIso"), startIso)
    IN  SelectSeq(sessions, today)

\* todaySessions.reduce((sum, ss) => sum + ss.minutes, sum)
RECURSIVE SumMinutes(_, _)
SumMinutes(todaySessions, sum) ==
    IF todaySessions = <<>> THEN sum
    ELSE SumMinutes(Tail(todaySessions), sum + Get(Head(todaySessions), "minutes")[2])

\* skill.schedule[dayKey] ?? [] can be read and filtered
BlocksReadable(skill, dayKey) ==
    /\ ~Nullish(skill)
    /\ ~Nullish(Get(skill, "schedule"))
    /\ LET blocks == Get(Get(skill, "schedule"), dayKey)
       IN  \/ Nullish(blocks)
           \/ /\ IsArray(blocks)
              /\ \A i \in 1..Len(blocks[2]) : ~Nullish(blocks[2][i])

\* skill.schedule[dayKey] ?? []
blocksOf(skill, dayKey) ==
    LET blocks == Get(Get(skill, "schedule"), dayKey)
    IN  IF Nullish(blocks) THEN <<>> ELSE blocks[2]

\* one row of Dashboard.rows
Row(skill, sessions, t) ==
    LET date == NewDate(t)
        dayKey == weekdayFromDate(date)
        todayMinutes == SumMinutes(todaySessionsOf(skill, sessions, t), 0)
        expectedByNow == expectedMinutesByNow(blocksOf(skill, dayKey), date)
    IN  [skill |-> skill,
         todayMinutes |-> todayMinutes,
         expectedByNow |-> expectedByNow,
         status |-> rowStatus(todayMinutes, expectedByNow)]

\* reading a property of undefined or null, or calling what is no function
TypeError == [threw |-> TRUE, rows |-> <<>>]

\* Dashboard.rows computed at instant t: the rows, or the render throws
rows(skills, sessions, t) ==
    IF \E i \in 1..Len(skills) : ~BlocksReadable(skills[i], weekdayFromDate(NewDate(t)))
        THEN TypeError
        ELSE [threw |-> FALSE,
              rows |-> [i \in 1..Len(skills) |-> Row(skills[i], sessions, t)]]

\* todaySessions, todayMinutes and completion of the SkillEditor of a skill,
\* computed at instant t
completion(skill, todayMinutes, t) ==
    LET date == NewDate(t)
        dayKey == weekdayFromDate(date)
        expectedByNow == expectedMinutesByNow(blocksOf(skill, dayKey), date)
    IN  [status |-> completionStatus(todayMinutes, expectedByNow),
         expectedByNow |-> expectedByNow]

editorMemos(skill, sessions, t) ==
    LET todayMinutes == SumMinutes(todaySessionsOf(skill, sessions, t), 0)
    IN  [key |-> Get(skill, "id"),
         todayMinutes |-> todayMinutes,
         completion |-> completion(skill, todayMinutes, t)]

\* the memos after a render at instant t. A memo is computed when its
\* component mounts and again when one of its dependencies has changed: rows
\* depends on [skills, sessions], todaySessions on [sessions, skill.id],
\* completion on [skill.schedule, todayMinutes]. The editors are keyed by skill id.
Render(v, page, skills, sessions, t, skillsChanged, sessionsChanged, schedulesChanged) ==
    LET mounted(key) == {i \in 1..Len(v.editors) : v.editors[i].key = key}
        editor(skill) ==
            LET key == Get(skill, "id")
                fresh == editorMemos(skill, sessions, t)
            IN  IF v.page # "skills" \/ mounted(key) = {} THEN fresh
                ELSE LET old == v.editors[CHOOSE i \in mounted(key) : TRUE]
                         todayMinutes == IF sessionsChanged THEN fresh.todayMinutes
                                         ELSE old.todayMinutes
                     IN  [key |-> key,
                          todayMinutes |-> todayMinutes,
                          completion |->
                             IF key \in schedulesChanged \/ todayMinutes # old.todayMinutes
                                 THEN completion(skill, todayMinutes, t)
                                 ELSE old.completion]
    IN  [page |-> page,
         rows |-> IF page # "dashboard" THEN NoRows
                  ELSE IF v.page = "dashboard" /\ ~skillsChanged /\ ~sessionsChanged
                      THEN v.rows
                  ELSE rows(skills, sessions, t),
         editors |-> IF page # "skills" THEN <<>>
                     ELSE [i \in 1..Len(skills) |-> editor(skills[i])]]

(***************************************************************************)
(* The App over a day: the page is opened on a stored document, time       *)
(* passes, the user switches pages, logs sessions and deletes skills.      *)
(***************************************************************************)
MaxLogged == 1

\* the instant of a local date and time
InstantAt(day, hours, minutes) ==
    CHOOSE t \in Instants :
        /\ NewDate(t).day = day
        /\ NewDate(t).hours = hours
        /\ NewDate(t).minutes = minutes
Yesterday2359 == InstantAt(0, 23, 59)
Today0001 == InstantAt(1, 0, 1)
Today0500 == InstantAt(1, 5, 0)
Today0700 == InstantAt(1, 7, 0)
Tomorrow0001 == InstantAt(2, 0, 1)

\* the instants at which the clock is read
ClockInstants == {Yesterday2359, Today0001, Today0500, Today0700}

\* a weekly schedule with the given blocks on Monday
mondaySchedule(blocks) ==
    Obj([d \in Weekday |-> IF d = "mon" THEN Arr(blocks) ELSE Arr(<<>>)])

sqlSkill ==
    Obj([id |-> Str("skill-sql"), name |-> Str("sql"),
         schedule |-> mondaySchedule(<<Block(<<6, 0>>, 30)>>),
         createdAtIso |-> nowIso(0), updatedAtIso |-> nowIso(0),
         priority |-> Num(1)])

artSkill ==
    Obj([id |-> Str("skill-art"), name |-> Str("art"),
         schedule |-> defaultWeeklySchedule,
         createdAtIso |-> nowIso(0), updatedAtIso |-> nowIso(0)])

\* a Session logged at instant t
Session(sessionId, skillId, minutes, t) ==
    Obj([id |-> sessionId, skillId |-> skillId, minutes |-> Num(minutes),
         startedAtIso |-> nowIso(t), createdAtIso |-> nowIso(t)])

\* the documents the slot holds when the page is opened: a skill with a block
\* at 06:00 for 30 minutes and no sessions; two skills with sessions of
\* yesterday 23:59, of today 00:01, of a day to come and of a skill since
\* deleted, newest first
DayDocuments ==
    {AppData(nowIso(0), Obj([skills |-> Arr(<<sqlSkill>>), sessions |-> Arr(<<>>),
                             overrides |-> Arr(<<>>)])),
     AppData(nowIso(0),
             Obj([skills |-> Arr(<<artSkill, sqlSkill>>),
                  sessions |-> Arr(<<Session(Str("session-d"), Str("skill-sql"), 45, Tomorrow0001),
                                     Session(Str("session-c"), Str("skill-sql"), 20, Today0001),
                                     Session(Str("session-b"), Str("skill-gone"), 10, Today0001),
                                     Session(Str("session-a"), Str("skill-sql"), 30, Yesterday2359)>>),
                  overrides |-> Arr(<<Obj([date |-> Str("2026-01-05")])>>)]))}

skillsOf(data) == Get(Get(data, "payload"), "skills")[2]
sessionsOf(data) == Get(Get(data, "payload"), "sessions")[2]

InitDay ==
    /\ store \in {JSONstringify(d) : d \in DayDocuments}
    /\ now \in ClockInstants
    /\ app = initialApp(store, now)
    /\ error = Null
    /\ pending = 0
    /\ download = NoItem
    /\ uuids = 0
    /\ last = Op("load", store, NoResult, NoSave, now)
    /\ call = NoCall
    /\ view = Render(NoView, "dashboard", skillsOf(app), sessionsOf(app), now, TRUE, TRUE, {})

\* time passes while the page stays open: nothing renders
TimePasses ==
    /\ \E t \in ClockInstants : t > now /\ now' = t
    /\ UNCHANGED <<store, app, error, pending, download, uuids, last, call, view>>

\* setPage(page) by a NavButton
setPage ==
    /\ \E page \in {"dashboard", "skills"} :
        /\ page # view.page
        /\ view' = Render(view, page, skillsOf(app), sessionsOf(app), now, FALSE, FALSE, {})
        /\ last' = Op("setPage", Str(page), NoResult, NoSave, now)
    /\ UNCHANGED <<store, app, error, now, pending, download, uuids, call>>

\* addSession(skillId, minutes), from a row of Dashboard or from a SkillEditor
addSession ==
    /\ uuids < MaxLogged
    /\ \E i \in 1..Len(skillsOf(app)), minutes \in {30} :
        LET skillId == Get(skillsOf(app)[i], "id")
            session == Session(id(uuids), skillId, minutes, now)
            next == WithPayloadField(app, "sessions", Arr(<<session>> \o sessionsOf(app)))
        IN  /\ minutes > 0
            /\ commit(next)
            /\ last' = Op("addSession", skillId, NoResult, Saved(next), now)
            /\ view' = Render(view, view.page, skillsOf(app'), sessionsOf(app'), now,
                              FALSE, TRUE, {})
    /\ uuids' = uuids + 1
    /\ UNCHANGED <<error, now, pending, download, call>>

\* deleteSkill that also drops the sessions of the deleted skill
deleteSkillCascading ==
    /\ view.page = "skills"
    /\ \E i \in 1..Len(skillsOf(app)) :
        LET skillId == Get(skillsOf(app)[i], "id")
            kept(s) == ~StrictEquals(Get(s, "id"), skillId)
            others(ss) == ~StrictEquals(Get(ss, "skillId"), skillId)
            next == WithPayloadField(
                        WithPayloadField(app, "skills", Arr(SelectSeq(skillsOf(app), kept))),
                        "sessions", Arr(SelectSeq(sessionsOf(app), others)))
        IN  /\ commit(next)
            /\ last' = Op("deleteSkill", skillId, NoResult, Saved(next), now)
            /\ view' = Render(view, view.page, skillsOf(app'), sessionsOf(app'), now,
                              TRUE, TRUE, {})
    /\ UNCHANGED <<error, now, pending, download, uuids, call>>

\* deleteSkill(skillId), from the SkillEditor of the skill
deleteSkill ==
    /\ view.page = "skills"
    /\ \E i \in 1..Len(skillsOf(app)) :
        LET skillId == Get(skillsOf(app)[i], "id")
            kept(s) == ~StrictEquals(Get(s, "id"), skillId)
            next == WithPayloadField(app, "skills", Arr(SelectSeq(skillsOf(app), kept)))
        IN  /\ commit(next)
            /\ last' = Op("deleteSkill", skillId, NoResult, Saved(next), now)
            /\ view' = Render(view, view.page, skillsOf(app'), sessionsOf(app'), now,
                              TRUE, FALSE, {})
    /\ UNCHANGED <<error, now, pending, download, uuids, call>>

NextDay == TimePasses \/ setPage \/ addSession \/ deleteSkill

SpecDay == InitDay /\ [][NextDay]_vars

(***************************************************************************)
(* Properties of the views                                                 *)
(***************************************************************************)
\* what Dashboard and the SkillEditors would show if computed now
DerivedRow(i) == Row(skillsOf(app)[i], sessionsOf(app), now)
DerivedCompletion(i) ==
    completion(skillsOf(app)[i],
               SumMinutes(todaySessionsOf(skillsOf(app)[i], sessionsOf(app), now), 0),
               now)

\* C11: the status shown for a skill is never stale: in every reachable state
\* the expectedMinutesByNow and the status that Dashboard and SkillEditor show
\* are the ones derived from the current schedule, the current sessions and
\* the current time (a skill with a block at 06:00 for 30 minutes and no
\* session, idle at 05:00, shows overdue once the clock reaches 07:00).
C11_StatusNeverStale ==
    /\ view.page = "dashboard" =>
        /\ ~view.rows.threw
        /\ Len(view.rows.rows) = Len(skillsOf(app))
        /\ \A i \in 1..Len(view.rows.rows) :
            /\ view.rows.rows[i].expectedByNow = DerivedRow(i).expectedByNow
            /\ view.rows.rows[i].status = DerivedRow(i).status
    /\ view.page = "skills" =>
        /\ Len(view.editors) = Len(skillsOf(app))
        /\ \A i \in 1..Len(view.editors) :
            view.editors[i].completion = DerivedCompletion(i)

\* the sessions of the skill logged on the local day of instant t and not
\* later than t
InTodayWindow(skill, sessions, t) ==
    {k \in 1..Len(sessions) :
        LET startedAt == sessions[k][2].startedAtIso[2]
        IN  /\ sessions[k][2].skillId = skill[2].id
            /\ NewDate(startedAt).day = NewDate(t).day
            /\ startedAt <= t}

\* C12: today's minutes of a skill are the sum of the minutes of exactly its
\* sessions that started on the current local day and not later than now: a
\* session of 23:59 of the day before is never counted (also not once the
\* clock has crossed midnight with no other change), one of 00:01 today is,
\* and one dated later than now (tomorrow, in an imported document) is not.
C12_TodayMinutesWindow ==
    \A i \in 1..Len(skillsOf(app)) :
        LET windowMinutes ==
                MinutesAt(sessionsOf(app),
                          InTodayWindow(skillsOf(app)[i], sessionsOf(app), now))
        IN  /\ DerivedRow(i).todayMinutes = windowMinutes
            /\ (view.page = "dashboard" /\ i <= Len(view.rows.rows))
                    => view.rows.rows[i].todayMinutes = windowMinutes

(***************************************************************************)
(* Properties of the handlers of the skills page                           *)
(***************************************************************************)
\* the step is a call of the handler
Handles(op) == last'.op = op /\ last' # last

\* the items of xs at the positions in the set, in their order in xs
ItemsAt(xs, positions) ==
    [j \in 1..Cardinality(positions) |->
        xs[CHOOSE k \in positions : Cardinality({x \in positions : x <= k}) = j]]

\* the payload of the document in the slot
storedPayload(item) == Get(item.json, "payload")

\* C13: deleting a skill does not cascade: deleteSkill(id) removes exactly the
\* skills with that id, keeps the other skills in their order, and leaves the
\* sessions (those of the deleted skill included) and the overrides unchanged,
\* in memory and in the slot.
C13_DeleteSkillNoCascade ==
    [][Handles("deleteSkill") =>
        LET skillId == last'.arg
            skills == skillsOf(app)
            others == {i \in 1..Len(skills) : skills[i][2].id # skillId}
        IN  /\ skillsOf(app') = ItemsAt(skills, others)
            /\ Get(Get(app', "payload"), "sessions") = Get(Get(app, "payload"), "sessions")
            /\ Get(Get(app', "payload"), "overrides") = Get(Get(app, "payload"), "overrides")
            /\ Get(storedPayload(store'), "skills") = Arr(ItemsAt(skills, others))
            /\ Get(storedPayload(store'), "sessions") = Get(storedPayload(store), "sessions")
            /\ Get(storedPayload(store'), "overrides") = Get(storedPayload(store), "overrides")
            /\ Get(storedPayload(store'), "sessions") = Get(Get(app, "payload"), "sessions")
      ]_vars

\* sql was deleted while art stays, and the sessions of sql are still there,
\* in memory and in the slot, as is the override
C13_Witness ==
    /\ last.op = "deleteSkill"
    /\ last.arg = Str("skill-sql")
    /\ skillsOf(app) = <<artSkill>>
    /\ \E k \in 1..Len(sessionsOf(app)) : sessionsOf(app)[k][2].skillId = Str("skill-sql")
    /\ Get(storedPayload(store), "sessions") = Get(Get(app, "payload"), "sessions")
    /\ Get(storedPayload(store), "overrides") = Arr(<<Obj([date |-> Str("2026-01-05")])>>)

(***************************************************************************)
(* Properties of an import in flight                                       *)
(***************************************************************************)
\* C14: import is exclusive: from the moment the file read is pending until
\* the import completes or fails, no other operation (save, export, or an
\* edit of skills or sessions) is applied to the in-memory snapshot or to the
\* slot: only the import's own completion, or opening the page anew, changes
\* them.
C14_ImportExclusive ==
    [][(pending > 0 /\ ~ImportResumes /\ last'.op # "load")
            => (app' = app /\ store' = store)]_vars

(***************************************************************************)
(* core/duration.ts: parseDurationToMinutes                                *)
(***************************************************************************)
UpperCase == "ABCDEFGHIJKLMNOPQRSTUVWXYZ"
LowerCase == "abcdefghijklmnopqrstuvwxyz"

\* String.prototype.toLowerCase
RECURSIVE toLowerCase(_)
toLowerCase(s) ==
    IF s = "" THEN ""
    ELSE LET c == SubSeq(s, 1, 1)
             at == {i \in 1..Len(UpperCase) : SubSeq(UpperCase, i, i) = c}
             lower == IF at = {} THEN c
                      ELSE LET i == CHOOSE i \in at : TRUE IN SubSeq(LowerCase, i, i)
         IN  lower \o toLowerCase(SubSeq(s, 2, Len(s)))

\* the length of the longest prefix of s matching \d*
RECURSIVE DigitsPrefix(_)
DigitsPrefix(s) ==
    IF s # "" /\ IsDigit(SubSeq(s, 1, 1)) THEN 1 + DigitsPrefix(SubSeq(s, 2, Len(s))) ELSE 0

\* the number a text of digits denotes
RECURSIVE DigitsValue(_)
DigitsValue(digits) ==
    IF digits = "" THEN 0
    ELSE 10 * DigitsValue(SubSeq(digits, 1, Len(digits) - 1))
            + (CHOOSE d \in 0..9 : ToString(d) = SubSeq(digits, Len(digits), Len(digits)))

\* parseInt(text, 10) for a text that starts with a digit: the number its
\* longest prefix of digits denotes
parseInt(text) == DigitsValue(SubSeq(text, 1, DigitsPrefix(text)))

RECURSIVE PowerOfTen(_)
PowerOfTen(k) == IF k = 0 THEN 1 ELSE 10 * PowerOfTen(k - 1)

\* Number(text) for a text matching \d+(\.\d+)?, as the fraction numer / denom
NumberOfDecimal(text) ==
    LET whole == DigitsPrefix(text)
        fraction == SubSeq(text, whole + 2, Len(text))
    IN  [numer |-> DigitsValue(SubSeq(text, 1, whole) \o fraction),
         denom |-> PowerOfTen(Len(fraction))]

\* Math.floor(hours * 60), hours a fraction
MathFloorTimes60(hours) == (60 * hours.numer) \div hours.denom

\* Math.round(hours * 60), hours a fraction: the nearest integer, a half going up
MathRoundTimes60(hours) == (120 * hours.numer + hours.denom) \div (2 * hours.denom)

\* /^\d+$/.test(raw)
TestDigits(raw) == raw # "" /\ DigitsPrefix(raw) = Len(raw)

MinuteUnits == {"m", "min", "mins", "minute", "minutes"}
HourUnits == {"h", "hr", "hrs", "hour", "hours"}

\* raw.match(/^(\d+(\.\d+)?)\s*(m|min|mins|minute|minutes)$/): group 1, or <<>>
MatchDecimalMinutes(raw) ==
    LET whole == DigitsPrefix(raw)
        after == SubSeq(raw, whole + 1, Len(raw))
        fraction == IF after # "" /\ SubSeq(after, 1, 1) = "."
                        THEN DigitsPrefix(SubSeq(after, 2, Len(after))) ELSE 0
        number == IF fraction > 0 THEN whole + 1 + fraction ELSE whole
    IN  IF whole > 0 /\ TrimStart(SubSeq(raw, number + 1, Len(raw))) \in MinuteUnits
            THEN <<SubSeq(raw, 1, number)>> ELSE <<>>

\* raw.match(/^(\d+)\s*(m|min|mins|minute|minutes)$/): group 1, or <<>> for null
MatchMinutes(raw) ==
    LET whole == DigitsPrefix(raw)
    IN  IF whole > 0 /\ TrimStart(SubSeq(raw, whole + 1, Len(raw))) \in MinuteUnits
            THEN <<SubSeq(raw, 1, whole)>> ELSE <<>>

\* raw.match(/^(\d+(\.\d+)?)\s*(h|hr|hrs|hour|hours)$/): group 1, or <<>> for null
MatchHours(raw) ==
    LET whole == DigitsPrefix(raw)
        after == SubSeq(raw, whole + 1, Len(raw))
        fraction == IF after # "" /\ SubSeq(after, 1, 1) = "."
                        THEN DigitsPrefix(SubSeq(after, 2, Len(after))) ELSE 0
        number == IF fraction > 0 THEN whole + 1 + fraction ELSE whole
    IN  IF whole > 0 /\ TrimStart(SubSeq(raw, number + 1, Len(raw))) \in HourUnits
            THEN <<SubSeq(raw, 1, number)>> ELSE <<>>

Minutes(n) == [ok |-> TRUE, minutes |-> n, message |-> ""]
Failure(message) == [ok |-> FALSE, minutes |-> 0, message |-> message]

DurationRequired == "Duration is required."
MinutesMustBePositive == "Minutes must be > 0."
HoursMustBePositive == "Hours must be > 0."
DurationTooSmall == "Duration too small."
InvalidDuration ==
    "Invalid duration. Examples: 30, 30min, 45m, 1hr, 0.5hr. Decimals allowed only for hours."

\* parseDurationToMinutes without the test for an empty text
parseDurationToMinutesUnchecked(input) ==
    LET raw == toLowerCase(trim(input))
        minMatch == MatchMinutes(raw)
        hrMatch == MatchHours(raw)
    IN  IF TestDigits(raw) THEN
            LET minutes == parseInt(raw)
            IN  IF minutes <= 0 THEN Failure(MinutesMustBePositive) ELSE Minutes(minutes)
        ELSE IF minMatch # <<>> THEN
            LET minutes == parseInt(minMatch[1])
            IN  IF minutes <= 0 THEN Failure(MinutesMustBePositive) ELSE Minutes(minutes)
        ELSE IF hrMatch # <<>> THEN
            LET hours == NumberOfDecimal(hrMatch[1])
                minutes == MathRoundTimes60(hours)
            IN  IF hours.numer <= 0 THEN Failure(HoursMustBePositive)
                ELSE IF minutes <= 0 THEN Failure(DurationTooSmall)
                ELSE Minutes(minutes)
        ELSE Failure(InvalidDuration)

parseDurationToMinutes(input) ==
    LET raw == toLowerCase(trim(input))
        minMatch == MatchMinutes(raw)
        hrMatch == MatchHours(raw)
    IN  IF raw = "" THEN Failure(DurationRequired)
        ELSE IF TestDigits(raw) THEN
            LET minutes == parseInt(raw)
            IN  IF minutes <= 0 THEN Failure(MinutesMustBePositive) ELSE Minutes(minutes)
        ELSE IF minMatch # <<>> THEN
            LET minutes == parseInt(minMatch[1])
            IN  IF minutes <= 0 THEN Failure(MinutesMustBePositive) ELSE Minutes(minutes)
        ELSE IF hrMatch # <<>> THEN
            LET hours == NumberOfDecimal(hrMatch[1])
                minutes == MathRoundTimes60(hours)
            IN  IF hours.numer <= 0 THEN Failure(HoursMustBePositive)
                ELSE IF minutes <= 0 THEN Failure(DurationTooSmall)
                ELSE Minutes(minutes)
        ELSE Failure(InvalidDuration)

(***************************************************************************)
(* parseDurationToMinutes as a function of the text typed                  *)
(***************************************************************************)
\* the number part of an input: its text and, apart from the parser, what it
\* is (kind) and the fraction numer / denom it denotes
NumberPart(text, kind, numer, denom) ==
    [text |-> text, kind |-> kind, numer |-> numer, denom |-> denom]
NumberParts ==
    {NumberPart("", "none", 0, 1),
     NumberPart("0", "whole", 0, 1), NumberPart("2", "whole", 2, 1),
     NumberPart("45", "whole", 45, 1), NumberPart("007", "whole", 7, 1),
     NumberPart("0.0", "decimal", 0, 10), NumberPart("0.5", "decimal", 5, 10),
     NumberPart("1.5", "decimal", 15, 10), NumberPart("30.5", "decimal", 305, 10),
     NumberPart("0.008", "decimal", 8, 1000), NumberPart("0.025", "decimal", 25, 1000),
     NumberPart("1.", "malformed", 1, 1), NumberPart(".5", "malformed", 5, 10)}

\* the unit part of an input: its text and the kind of unit it spells
UnitPart(text, kind) == [text |-> text, kind |-> kind]
UnitParts ==
    {UnitPart("", "none")}
        \cup {UnitPart(u, "minute") : u \in MinuteUnits \cup {"MIN", "Minutes"}}
        \cup {UnitPart(u, "hour") : u \in HourUnits \cup {"HR", "Hours"}}
        \cup {UnitPart(u, "other") : u \in {"x", "ms", "minutos"}}

\* the texts typed: a number, white space, a unit, with white space around
DurationInputs ==
    {[pre |-> pre, number |-> n, sep |-> sep, unit |-> u, post |-> post] :
        pre \in {"", " "}, n \in NumberParts, sep \in {"", " ", "\t"},
        u \in UnitParts, post \in {"", " "}}
TextOf(in) == in.pre \o in.number.text \o in.sep \o in.unit.text \o in.post

InitDuration ==
    /\ Opened
    /\ call \in {Call("input", <<in>>, Failure("")) : in \in DurationInputs}

\* parseDurationToMinutes(input)
ParseDuration ==
    /\ call.fn = "input"
    /\ call' = Call("parseDurationToMinutes", call.args,
                    parseDurationToMinutes(TextOf(call.args[1])))
    /\ UNCHANGED appVars

NextDuration == ParseDuration

SpecDuration == InitDuration /\ [][NextDuration]_vars

Parsed == call.fn = "parseDurationToMinutes"
Typed == call.args[1]

\* C15: an input that is empty or white space only gives the failure
\* "Duration is required.", before any other rule; no other input gives it.
C15_BlankIsRequired ==
    Parsed =>
        LET blank == Typed.number.text = "" /\ Typed.unit.text = ""
        IN  /\ blank => call.result = [ok |-> FALSE, minutes |-> 0,
                                       message |-> "Duration is required."]
            /\ ~blank => call.result.message # "Duration is required."

\* a blank, a tab and a blank were typed and the duration is required
C15_Witness ==
    /\ Parsed
    /\ TextOf(Typed) = " \t "
    /\ ~call.result.ok
    /\ call.result.message = "Duration is required."

\* C16: digits alone, or digits, optional white space and a minute unit, are
\* whole minutes: n > 0 gives {ok: true, minutes: n}, n = 0 gives the failure
\* "Minutes must be > 0."; with a decimal point in these two forms the input
\* is a failure.
C16_WholeMinutes ==
    (Parsed /\ Typed.unit.kind \in {"none", "minute"}) =>
        LET n == Typed.number.numer
        IN  /\ (Typed.number.kind = "whole" /\ n > 0)
                    => (call.result.ok /\ call.result.minutes = n)
            /\ (Typed.number.kind = "whole" /\ n = 0)
                    => (~call.result.ok /\ call.result.message = "Minutes must be > 0.")
            /\ Typed.number.kind \in {"decimal", "malformed"} => ~call.result.ok

\* "30.5min" was typed and is a failure
C16_Witness ==
    /\ Parsed
    /\ TextOf(Typed) = "30.5min"
    /\ ~call.result.ok
    /\ call.result.message = InvalidDuration

\* C17: a whole or decimal number, optional white space and an hour unit give
\* the minutes nearest to hours times 60 (a half going up); hours equal to 0
\* give the failure "Hours must be > 0.", positive hours whose minutes round
\* to 0 give "Duration too small."; every successful result, of any form, has
\* minutes >= 1.
C17_HoursRounded ==
    Parsed =>
        /\ call.result.ok => call.result.minutes >= 1
        /\ (Typed.unit.kind = "hour" /\ Typed.number.kind \in {"whole", "decimal"}) =>
            LET n == Typed.number.numer
                d == Typed.number.denom
                m == call.result.minutes
            IN  /\ n = 0 => (~call.result.ok /\ call.result.message = "Hours must be > 0.")
                /\ (n > 0 /\ 120 * n < d)
                        => (~call.result.ok /\ call.result.message = "Duration too small.")
                /\ (n > 0 /\ 120 * n >= d)
                        => /\ call.result.ok
                           /\ 2 * (m * d - 60 * n) <= d
                           /\ 2 * (60 * n - m * d) < d

\* "0.025hr", a minute and a half, was typed and gives 2 minutes
C17_Witness ==
    /\ Parsed
    /\ TextOf(Typed) = "0.025hr"
    /\ call.result = [ok |-> TRUE, minutes |-> 2, message |-> ""]

(***************************************************************************)
(* App.tsx: Dashboard.sortedRows, the rows of "All skills"                 *)
(***************************************************************************)
MaxRows == 3

\* (p?: Priority) => (p ?? 0): skills with no priority first
prZero(p) == IF Nullish(p) THEN 0 ELSE p[2]

\* (p?: Priority) => (p ?? 999)
pr(p) == IF Nullish(p) THEN 999 ELSE p[2]

\* the place of a letter in the alphabet, either case
LetterRank(c) ==
    CHOOSE i \in 1..Len(LowerCase) : SubSeq(LowerCase, i, i) = toLowerCase(c)

\* a.localeCompare(b) on names made of letters: by letters in dictionary
\* order, a shorter name before its extensions; names with the same letters
\* by the first difference of case, lower case first
localeCompare(a, b) ==
    LET common == IF Len(a) < Len(b) THEN Len(a) ELSE Len(b)
        letters == {i \in 1..common :
                        LetterRank(SubSeq(a, i, i)) # LetterRank(SubSeq(b, i, i))}
        cases == {i \in 1..common : SubSeq(a, i, i) # SubSeq(b, i, i)}
    IN  IF letters # {}
            THEN LET i == CHOOSE i \in letters : \A j \in letters : i <= j
                 IN  IF LetterRank(SubSeq(a, i, i)) < LetterRank(SubSeq(b, i, i))
                         THEN -1 ELSE 1
        ELSE IF Len(a) # Len(b) THEN (IF Len(a) < Len(b) THEN -1 ELSE 1)
        ELSE IF cases # {}
            THEN LET i == CHOOSE i \in cases : \A j \in cases : i <= j
                 IN  IF SubSeq(a, i, i) = toLowerCase(SubSeq(a, i, i)) THEN -1 ELSE 1
        ELSE 0

\* the comparator given to sort
compareRows(a, b) ==
    LET ap == pr(Get(a.skill, "priority"))
        bp == pr(Get(b.skill, "priority"))
    IN  IF ap # bp THEN ap - bp
        ELSE localeCompare(Get(a.skill, "name")[2], Get(b.skill, "name")[2])

\* Array.prototype.sort: stable, a row goes after the rows not greater than it
RECURSIVE InsertRow(_, _)
InsertRow(sorted, row) ==
    IF sorted = <<>> THEN <<row>>
    ELSE IF compareRows(sorted[Len(sorted)], row) <= 0 THEN Append(sorted, row)
    ELSE Append(InsertRow(SubSeq(sorted, 1, Len(sorted) - 1), row), sorted[Len(sorted)])

RECURSIVE sort(_)
sort(xs) ==
    IF xs = <<>> THEN <<>>
    ELSE InsertRow(sort(SubSeq(xs, 1, Len(xs) - 1)), xs[Len(xs)])

\* [...rows].sort((a, b) => ...)
sortedRows(unsorted) == sort(unsorted)

\* the names of the skills, in ascending order of name
Names == <<"art", "sql", "SQL">>
Priorities == {Undefined, Num(1), Num(3)}

\* the i-th skill of the payload, with a name and a priority or none
rankedSkill(i, name, priority) ==
    LET all == [id |-> Str("skill-" \o ToString(i)), name |-> Str(name),
                schedule |-> defaultWeeklySchedule,
                createdAtIso |-> nowIso(0), updatedAtIso |-> nowIso(0),
                priority |-> priority]
    IN  Obj([x \in {y \in DOMAIN all : all[y] # Undefined} |-> all[x]])

SkillLists ==
    UNION {{[i \in 1..n |-> rankedSkill(i, Names[f[i][1]], f[i][2])] :
                f \in [1..n -> (1..Len(Names)) \X Priorities]} : n \in 0..MaxRows}

InitSorted ==
    /\ Opened
    /\ call \in {Call("input", <<skills>>, <<>>) : skills \in SkillLists}

\* the Dashboard renders the skills, with no sessions
SortRows ==
    /\ call.fn = "input"
    /\ call' = Call("sortedRows", call.args,
                    sortedRows(rows(call.args[1], <<>>, Today0500).rows))
    /\ UNCHANGED appVars

NextSorted == SortRows

SpecSorted == InitSorted /\ [][NextSorted]_vars

\* the place of the name of a skill among the names in ascending order
NamePlace(skill) ==
    CHOOSE i \in 1..Len(Names) : Names[i] = Get(skill, "name")[2]

\* skill a may be listed before skill b
MayPrecede(a, b) ==
    LET ap == Get(a, "priority")
        bp == Get(b, "priority")
    IN  \/ ap # Undefined /\ bp = Undefined
        \/ ap # Undefined /\ bp # Undefined /\ ap[2] < bp[2]
        \/ ap = bp /\ NamePlace(a) <= NamePlace(b)

\* C18: the rows of "All skills" hold every skill exactly once, by ascending
\* priority with the skills of no priority after all the others, and by
\* ascending name among skills of the same priority and among skills of none.
C18_AllSkillsSorted ==
    call.fn = "sortedRows" =>
        LET skills == call.args[1]
            listed == call.result
        IN  /\ Len(listed) = Len(skills)
            /\ \A i \in 1..Len(skills) :
                    Cardinality({j \in 1..Len(listed) : listed[j].skill = skills[i]}) = 1
            /\ \A j, k \in 1..Len(listed) :
                    j < k => MayPrecede(listed[j].skill, listed[k].skill)

\* "SQL" of priority 3, "art" of no priority and "sql" of priority 3 are
\* listed as sql, SQL, art
C18_Witness ==
    /\ call.fn = "sortedRows"
    /\ call.args[1] = <<rankedSkill(1, "SQL", Num(3)), rankedSkill(2, "art", Undefined),
                        rankedSkill(3, "sql", Num(3))>>
    /\ [j \in 1..Len(call.result) |-> Get(call.result[j].skill, "id")]
            = <<Str("skill-3"), Str("skill-1"), Str("skill-2")>>

(***************************************************************************)
(* The schedules of the skills of the snapshot                             *)
(***************************************************************************)
\* C19: in every reachable state every skill of the snapshot has a schedule
\* with the 7 weekday keys, each an array of blocks, and computing the rows
\* of the Dashboard does not throw.
C19_SchedulesComplete ==
    /\ defaultWeeklySchedule[2] = [d \in Weekday |-> Arr(<<>>)]
    /\ \A i \in 1..Len(skillsOf(app)) :
            \A d \in Weekday : IsArray(Get(Get(skillsOf(app)[i], "schedule"), d))
    /\ ~rows(skillsOf(app), sessionsOf(app), Today0500).threw

(***************************************************************************)
(* SkillEditor.updateBlock: a start time typed in the text input of a      *)
(* block, and expectedMinutesByNow of the blocks after it                  *)
(***************************************************************************)
\* the texts typed as start time: no "HH:MM" but the last two
StartTimesTyped ==
    {"", "6:00", "0600", "06:0", "06:00 ", "06.00", "ab:cd", "06:00", "23:59"}

\* the block at place i of a day, as added, edited or imported
dayBlock(i, startTime, minutes) ==
    Obj([id |-> Str("block-" \o ToString(i)), startTime |-> Str(startTime),
         minutes |-> Num(minutes)])
DayBlockKinds == {<<"06:00", 30>>, <<"23:59", 45>>, <<"6:00", 30>>}
DayBlockLists ==
    UNION {{[i \in 1..n |-> dayBlock(i, f[i][1], f[i][2])] :
                f \in [1..n -> DayBlockKinds]} : n \in 1..MaxBlocks}

\* updateBlock that moves the edited block to the front of the day
updateBlockToFront(blocks, blockId, patch) ==
    LET hit(b) == StrictEquals(Get(b, "id"), blockId)
        miss(b) == ~StrictEquals(Get(b, "id"), blockId)
        edited == SelectSeq(blocks, hit)
    IN  [i \in 1..Len(edited) |-> Obj(Spread(edited[i][2], patch))] \o SelectSeq(blocks, miss)

\* blocks.map(b => (b.id === blockId ? { ...b, ...patch } : b))
updateBlock(blocks, blockId, patch) ==
    [i \in 1..Len(blocks) |->
        IF StrictEquals(Get(blocks[i], "id"), blockId)
            THEN Obj(Spread(blocks[i][2], patch))
            ELSE blocks[i]]

InitTyped ==
    /\ Opened
    /\ call \in {Call("input", <<blocks, Date(c[1], c[2])>>, <<>>) :
                    blocks \in DayBlockLists, c \in Clocks}

\* onChange of the start time input of a block: updateBlock(day, b.id,
\* { startTime: e.target.value })
TypeStartTime ==
    /\ call.fn = "input"
    /\ \E i \in 1..Len(call.args[1]), text \in StartTimesTyped :
        LET blocks == call.args[1]
            blockId == Get(blocks[i], "id")
        IN  call' = Call("updateBlock", <<blocks, call.args[2], blockId, text>>,
                         updateBlock(blocks, blockId, [startTime |-> Str(text)]))
    /\ UNCHANGED appVars

\* expectedMinutesByNow(blocks, now) of the blocks as edited
ExpectedOfTyped ==
    /\ call.fn = "updateBlock"
    /\ call' = Call("expectedMinutesByNow", <<call.result, call.args[2]>>,
                    <<expectedMinutesByNow(call.result, call.args[2])>>)
    /\ UNCHANGED appVars

NextTyped == TypeStartTime \/ ExpectedOfTyped

SpecTyped == InitTyped /\ [][NextTyped]_vars

\* the text is two digits, a colon and two digits
IsHHMM(text) ==
    /\ Len(text) = 5
    /\ \E h, m \in 0..99 : text = TwoDigits(h) \o ":" \o TwoDigits(m)

\* the times of day the blocks are looked at
TimesOfDay == {Date(h, m) : h \in 0..23, m \in {0, 1, 59}}

\* C20: a start time that is no two-digit HH:MM is stored as typed, and its
\* block counts in expectedMinutesByNow with all its minutes at every time
\* of day, midnight included, as a block starting at minute 0 does.
C20_MalformedStartIsMidnight ==
    /\ call.fn = "updateBlock" =>
        LET before == call.args[1]
            after == call.result
        IN  /\ Len(after) = Len(before)
            /\ \A i \in 1..Len(before) :
                IF before[i][2].id = call.args[3]
                    THEN /\ after[i][2].startTime = Str(call.args[4])
                         /\ after[i][2].id = before[i][2].id
                         /\ after[i][2].minutes = before[i][2].minutes
                    ELSE after[i] = before[i]
    /\ call.fn = "expectedMinutesByNow" =>
        LET blocks == call.args[1]
            date == call.args[2]
            malformed == {i \in 1..Len(blocks) : ~IsHHMM(blocks[i][2].startTime[2])}
            started == {i \in 1..Len(blocks) \ malformed :
                            LET c == ClockOf(blocks[i][2].startTime[2])
                            IN  c[1] * 60 + c[2] <= date.hours * 60 + date.minutes}
        IN  /\ call.result = <<MinutesAt(blocks, malformed \cup started)>>
            /\ \A i \in malformed : \A d \in TimesOfDay :
                    expectedMinutesByNow(<<blocks[i]>>, d) = blocks[i][2].minutes[2]

\* "6:00" was typed as the start of a 45 minute block beside one starting at
\* 06:00, and at midnight the expected minutes are the 45
C20_Witness ==
    /\ call.fn = "expectedMinutesByNow"
    /\ call.args[2] = Date(0, 0)
    /\ call.args[1] = <<dayBlock(1, "06:00", 30), dayBlock(2, "6:00", 45)>>
    /\ call.result = <<45>>

(***************************************************************************)
(* A successful import                                                     *)
(***************************************************************************)
\* C21: a successful import returns version 1 and the payload of the document
\* normalized as loadAppData and saveAppData normalize it; when the import
\* has completed, the payload of the snapshot and the payload in the slot
\* are that normalized payload, whatever they were before.
C21_ImportNormalizes ==
    (last.op = "import" /\ ImportResult.ok) =>
        LET payload == Get(ImportedText.json, "payload")
            normalized == normalizePayload(payload)
        IN  /\ Get(ImportResult.value, "version") = Num(1)
            /\ Get(ImportResult.value, "payload") = normalized
            /\ normalized = Get(loadAppData(ImportedText, last.at), "payload")
            /\ normalized = Get(saveAppData(ImportedText.json, last.at).ret, "payload")
            /\ last.save.called
            /\ last.save.data = ImportResult.value
            /\ Get(app, "payload") = normalized
            /\ store.t = "json"
            /\ Get(store.json, "payload") = normalized

\* a document with a skill and a theme and without sessions and overrides
\* was imported: the snapshot and the slot hold it with the two arrays added
C21_Witness ==
    /\ last.op = "import"
    /\ ImportResult.ok
    /\ Get(ImportedText.json, "payload")
            = Obj([skills |-> Arr(<<storedSkill>>), theme |-> Str("dark")])
    /\ Get(app, "payload")
            = Obj([skills |-> Arr(<<storedSkill>>), sessions |-> Arr(<<>>),
                   overrides |-> Arr(<<>>), theme |-> Str("dark")])
    /\ Get(store.json, "payload") = Get(app, "payload")

(***************************************************************************)
(* App.tsx: the skills page. The handlers of App and of the SkillEditors   *)
(* run one at a time, each on the snapshot of the render before it.        *)
(***************************************************************************)
MaxIds == 2

\* the SkillEditors of SkillsPage, keyed by skill id: an editor that stays
\* mounted keeps its durationError, a new one starts with null
editorsOf(skills, editors) ==
    [i \in 1..Len(skills) |->
        LET key == Get(skills[i], "id")
            mounted == {j \in 1..Len(editors) : editors[j].key = key}
        IN  [key |-> key,
             durationError |-> IF mounted = {} THEN Null
                               ELSE editors[CHOOSE j \in mounted : TRUE].durationError]]

SkillsPage(skills, editors) ==
    [page |-> "skills", rows |-> NoRows, editors |-> editorsOf(skills, editors)]

\* setDurationError(value) in the editor at place i
setDurationError(editors, i, value) ==
    [editors EXCEPT ![i] = [key |-> editors[i].key, durationError |-> value]]

\* a skill with two blocks on Monday and one on Tuesday
weekSkill ==
    Obj([id |-> Str("skill-week"), name |-> Str("week"),
         schedule |-> Obj([d \in Weekday |->
                            CASE d = "mon" -> Arr(<<Block(<<6, 0>>, 30), Block(<<23, 59>>, 45)>>)
                              [] d = "tue" -> Arr(<<Block(<<6, 1>>, 30)>>)
                              [] OTHER -> Arr(<<>>)]),
         createdAtIso |-> nowIso(0), updatedAtIso |-> nowIso(0),
         dailyGoalMinutes |-> Num(30), weeklyGoalMinutes |-> Num(180),
         priority |-> Num(2)])

\* the slot when the page is opened: nothing, or two skills with a session
\* each
EditDocuments ==
    {AppData(nowIso(0),
             Obj([skills |-> Arr(<<artSkill, weekSkill>>),
                  sessions |-> Arr(<<Session(Str("session-b"), Str("skill-week"), 20, 0),
                                     Session(Str("session-a"), Str("skill-art"), 10, 0)>>),
                  overrides |-> Arr(<<Obj([date |-> Str("2026-01-05")])>>)]))}

InitEdit ==
    /\ store \in {NoItem} \cup {JSONstringify(d) : d \in EditDocuments}
    /\ now = 0
    /\ app = initialApp(store, now)
    /\ error = Null
    /\ pending = 0
    /\ download = NoItem
    /\ uuids = 0
    /\ last = Op("load", store, NoResult, NoSave, now)
    /\ call = NoCall
    /\ view = SkillsPage(skillsOf(app), <<>>)

\* the clock has moved on when the next handler runs
Elapses == now < MaxNow /\ now' = now + 1

\* a handler ends in commit(next); the page renders with the saved snapshot
Commits(op, arg, next, editors) ==
    /\ commit(next)
    /\ last' = Op(op, arg, NoResult, Saved(next), now)
    /\ view' = SkillsPage(skillsOf(app'), editors)

\* a handler returns before commit
Returns(op, arg) ==
    /\ last' = Op(op, arg, NoResult, NoSave, now)
    /\ UNCHANGED <<store, app>>

\* the names typed in the field of SkillsPage
SkillNames == {" ", " go "}

\* addSkill that puts the new skill after the existing ones
addSkillAtEnd ==
    /\ Elapses
    /\ \E name \in SkillNames :
        LET trimmed == trim(name)
            next == WithPayloadField(app, "skills",
                        Arr(skillsOf(app) \o <<newSkill(trimmed, uuids, now)>>))
        IN  IF ~Truthy(Str(trimmed))
                THEN /\ Returns("addSkill", Str(name))
                     /\ UNCHANGED <<uuids, view>>
                ELSE /\ uuids < MaxIds
                     /\ Commits("addSkill", Str(name), next, view.editors)
                     /\ uuids' = uuids + 1
    /\ UNCHANGED <<error, pending, download, call>>

\* addSkill(name)
addSkill ==
    /\ Elapses
    /\ \E name \in SkillNames :
        LET trimmed == trim(name)
            next == WithPayloadField(app, "skills",
                        Arr(<<newSkill(trimmed, uuids, now)>> \o skillsOf(app)))
        IN  IF ~Truthy(Str(trimmed))
                THEN /\ Returns("addSkill", Str(name))
                     /\ UNCHANGED <<uuids, view>>
                ELSE /\ uuids < MaxIds
                     /\ Commits("addSkill", Str(name), next, view.editors)
                     /\ uuids' = uuids + 1
    /\ UNCHANGED <<error, pending, download, call>>

\* updateSkill(skillId, patch) called by an editor through onUpdate
onUpdate(op, skillId, patch, editors) ==
    LET next == WithPayloadField(app, "skills",
                    Arr(updatedSkills(skillsOf(app), skillId, patch, now)))
    IN  Commits(op, Obj([skillId |-> skillId, patch |-> Obj(patch)]), next, editors)

\* onChange of the priority select; also updateSkill with an id no skill has
onChangePriority ==
    /\ Elapses
    /\ \E skillId \in {Get(skillsOf(app)[i], "id") : i \in 1..Len(skillsOf(app))}
                        \cup {Str("skill-gone")},
          patch \in PriorityPatches :
        onUpdate("updateSkill", skillId, patch, view.editors)
    /\ UNCHANGED <<error, pending, download, uuids, call>>

\* deleteSkill(skillId) called through onDelete
onDelete ==
    /\ Elapses
    /\ \E i \in 1..Len(skillsOf(app)) :
        LET skillId == Get(skillsOf(app)[i], "id")
            kept(s) == ~StrictEquals(Get(s, "id"), skillId)
            next == WithPayloadField(app, "skills", Arr(SelectSeq(skillsOf(app), kept)))
        IN  Commits("deleteSkill", Obj([skillId |-> skillId]), next, view.editors)
    /\ UNCHANGED <<error, pending, download, uuids, call>>

\* the goals typed in a GoalInput (a blank text is not committed)
GoalTexts == {"abc", "45"}

\* a goal handler that passes the result on without looking at res.ok
setGoalUnchecked(op, key, i, input) ==
    LET res == parseDurationToMinutes(input)
        skillId == Get(skillsOf(app)[i], "id")
        minutes == IF res.ok THEN Num(res.minutes) ELSE Undefined
    IN  /\ call' = Call("parseDurationToMinutes", <<input>>, res)
        /\ onUpdate(op, skillId, [x \in {key} |-> minutes],
                    setDurationError(view.editors, i, Null))

\* setDailyGoal(input) / setWeeklyGoal(input) of the editor at place i
setGoal(op, key, i, input) ==
    LET res == parseDurationToMinutes(input)
        skillId == Get(skillsOf(app)[i], "id")
    IN  /\ call' = Call("parseDurationToMinutes", <<input>>, res)
        /\ IF ~res.ok
              THEN /\ view' = [view EXCEPT
                                 !.editors = setDurationError(view.editors, i, Str(res.message))]
                   /\ Returns(op, Obj([skillId |-> skillId, input |-> Str(input)]))
              ELSE onUpdate(op, skillId, [x \in {key} |-> Num(res.minutes)],
                            setDurationError(view.editors, i, Null))

setDailyGoal ==
    /\ Elapses
    /\ \E i \in 1..Len(skillsOf(app)), input \in GoalTexts :
        setGoal("setDailyGoal", "dailyGoalMinutes", i, input)
    /\ UNCHANGED <<error, pending, download, uuids>>

setWeeklyGoal ==
    /\ Elapses
    /\ \E i \in 1..Len(skillsOf(app)), input \in GoalTexts :
        setGoal("setWeeklyGoal", "weeklyGoalMinutes", i, input)
    /\ UNCHANGED <<error, pending, download, uuids>>

\* { ...skill.schedule, [day]: next }
withDay(skill, day, next) ==
    [schedule |-> Obj(Spread(OwnProps(Get(skill, "schedule")), [x \in {day} |-> Arr(next)]))]

\* the days whose blocks are edited
EditedDays == {"mon", "tue"}

\* addBlock(day) of the editor at place i
addBlock ==
    /\ Elapses
    /\ uuids < MaxIds
    /\ \E i \in 1..Len(skillsOf(app)), day \in EditedDays :
        LET skill == skillsOf(app)[i]
            blocks == blocksOf(skill, day)
            next == blocks \o <<Obj([id |-> id(uuids), startTime |-> Str("06:00"),
                                     minutes |-> Num(30)])>>
        IN  onUpdate("addBlock", Get(skill, "id"), withDay(skill, day, next), view.editors)
    /\ uuids' = uuids + 1
    /\ UNCHANGED <<error, pending, download, call>>

\* the patches the two inputs of a block pass to updateBlock
BlockPatches == {[startTime |-> Str("07:30")], [minutes |-> Num(45)]}

\* updateBlock(day, blockId, patch) of the editor at place i
onChangeBlock ==
    /\ Elapses
    /\ \E i \in 1..Len(skillsOf(app)), day \in EditedDays, patch \in BlockPatches :
        LET skill == skillsOf(app)[i]
            blocks == blocksOf(skill, day)
        IN  \E k \in 1..Len(blocks) :
                onUpdate("updateBlock", Get(skill, "id"),
                         withDay(skill, day, updateBlock(blocks, Get(blocks[k], "id"), patch)),
                         view.editors)
    /\ UNCHANGED <<error, pending, download, uuids, call>>

\* deleteBlock(day, blockId) of the editor at place i
deleteBlock ==
    /\ Elapses
    /\ \E i \in 1..Len(skillsOf(app)), day \in EditedDays :
        LET skill == skillsOf(app)[i]
            blocks == blocksOf(skill, day)
        IN  \E k \in 1..Len(blocks) :
                LET others(b) == ~StrictEquals(Get(b, "id"), Get(blocks[k], "id"))
                IN  onUpdate("deleteBlock", Get(skill, "id"),
                             withDay(skill, day, SelectSeq(blocks, others)), view.editors)
    /\ UNCHANGED <<error, pending, download, uuids, call>>

\* the minutes passed to addSession
LoggedMinutes == {0, 25}

\* addSession that puts the new session after the stored ones
onAddSessionAtEnd ==
    /\ Elapses
    /\ \E i \in 1..Len(skillsOf(app)), minutes \in LoggedMinutes :
        LET skillId == Get(skillsOf(app)[i], "id")
            session == Session(id(uuids), skillId, minutes, now)
            next == WithPayloadField(app, "sessions", Arr(sessionsOf(app) \o <<session>>))
            arg == Obj([skillId |-> skillId, minutes |-> Num(minutes)])
        IN  IF ~NumberIsInteger(Num(minutes)) \/ minutes <= 0
                THEN /\ Returns("addSession", arg)
                     /\ UNCHANGED <<uuids, view>>
                ELSE /\ uuids < MaxIds
                     /\ Commits("addSession", arg, next, view.editors)
                     /\ uuids' = uuids + 1
    /\ UNCHANGED <<error, pending, download, call>>

\* addSession(skillId, minutes) called through onAddSession
onAddSession ==
    /\ Elapses
    /\ \E i \in 1..Len(skillsOf(app)), minutes \in LoggedMinutes :
        LET skillId == Get(skillsOf(app)[i], "id")
            session == Session(id(uuids), skillId, minutes, now)
            next == WithPayloadField(app, "sessions", Arr(<<session>> \o sessionsOf(app)))
            arg == Obj([skillId |-> skillId, minutes |-> Num(minutes)])
        IN  IF ~NumberIsInteger(Num(minutes)) \/ minutes <= 0
                THEN /\ Returns("addSession", arg)
                     /\ UNCHANGED <<uuids, view>>
                ELSE /\ uuids < MaxIds
                     /\ Commits("addSession", arg, next, view.editors)
                     /\ uuids' = uuids + 1
    /\ UNCHANGED <<error, pending, download, call>>

\* deleteSession(sessionId) called through onDeleteSession
deleteSession ==
    /\ Elapses
    /\ \E k \in 1..Len(sessionsOf(app)) :
        LET sessionId == Get(sessionsOf(app)[k], "id")
            others(s) == ~StrictEquals(Get(s, "id"), sessionId)
            next == WithPayloadField(app, "sessions", Arr(SelectSeq(sessionsOf(app), others)))
        IN  Commits("deleteSession", Obj([sessionId |-> sessionId]), next, view.editors)
    /\ UNCHANGED <<error, pending, download, uuids, call>>

\* the Save Now button, pressed on the skills page
onClickSaveNow == Elapses /\ saveNow

NextEdit ==
    \/ addSkill
    \/ onChangePriority
    \/ onDelete
    \/ setDailyGoal
    \/ setWeeklyGoal
    \/ addBlock
    \/ onChangeBlock
    \/ deleteBlock
    \/ onAddSession
    \/ deleteSession
    \/ onClickSaveNow

SpecEdit == InitEdit /\ [][NextEdit]_vars


(***************************************************************************)
(* Every command that changes the data goes through saveAppData            *)
(***************************************************************************)
\* the commands of the skills page and of the header that change the data
MutationOps ==
    {"addSkill", "updateSkill", "deleteSkill", "setDailyGoal", "setWeeklyGoal",
     "addBlock", "updateBlock", "deleteBlock", "addSession", "deleteSession",
     "onSaveNow"}

\* C22: every data-mutation command (add, update or delete a skill, log or
\* delete a session, any block edit, Save Now) goes through saveAppData: when
\* the command has been handled the in-memory snapshot is the value
\* saveAppData returned for the snapshot the command built, the store slot
\* holds the serialization of that same snapshot; a step that does not call
\* saveAppData leaves both the snapshot and the slot as they were.
C22_MutationsGoThroughSave ==
    [][/\ last'.op \in MutationOps
       /\ IF last'.save.called
              THEN /\ app' = saveAppData(last'.save.data, last'.at).ret
                   /\ store' = saveAppData(last'.save.data, last'.at).item
                   /\ store' = JSONstringify(app')
              ELSE /\ app' = app
                   /\ store' = store
                   /\ last'.op \in {"addSkill", "addSession", "setDailyGoal", "setWeeklyGoal"}]_vars

\* a block edit has been committed after an earlier command
C22_Witness ==
    /\ last.op = "updateBlock"
    /\ last.save.called
    /\ last.at = 1
    /\ last.save.data # app
    /\ store = JSONstringify(app)

(***************************************************************************)
(* updateSkill                                                             *)
(***************************************************************************)
\* the commands that reach updateSkill(id, patch)
UpdateOps ==
    {"updateSkill", "setDailyGoal", "setWeeklyGoal", "addBlock", "updateBlock", "deleteBlock"}

overridesOf(data) == Get(Get(data, "payload"), "overrides")

\* C23: updateSkill(id, patch) replaces only the skill whose id matches, by
\* the old skill overlaid with the patch and with updatedAtIso set to the
\* current time; every other skill is unchanged, the number and order of the
\* skills are unchanged, and sessions and overrides are unchanged; when no
\* skill has the id, the skills are unchanged.
C23_UpdateSkillReplacesOne ==
    [][(last'.op \in UpdateOps /\ last'.save.called) =>
        LET skillId == Get(last'.arg, "skillId")
            patch == Get(last'.arg, "patch")[2]
            old == skillsOf(app)
            new == skillsOf(app')
        IN  /\ Len(new) = Len(old)
            /\ \A i \in 1..Len(old) :
                IF Get(old[i], "id") = skillId
                    THEN new[i] = Obj(Spread(Spread(old[i][2], patch),
                                             [updatedAtIso |-> nowIso(last'.at)]))
                    ELSE new[i] = old[i]
            /\ sessionsOf(app') = sessionsOf(app)
            /\ overridesOf(app') = overridesOf(app)
            /\ (\A i \in 1..Len(old) : Get(old[i], "id") # skillId) => new = old]_vars

\* the second of two skills has been given priority 3 at a later instant than
\* it was created, next to a skill that was not touched
C23_Witness ==
    /\ last.op = "updateSkill"
    /\ last.at = 1
    /\ Get(last.arg, "skillId") = Str("skill-week")
    /\ Len(skillsOf(app)) = 2
    /\ skillsOf(app)[1] = artSkill
    /\ Get(skillsOf(app)[2], "priority") = Num(3)
    /\ Get(skillsOf(app)[2], "updatedAtIso") = nowIso(1)
    /\ Get(skillsOf(app)[2], "createdAtIso") = nowIso(0)
    /\ Len(sessionsOf(app)) = 2

(***************************************************************************)
(* addSkill                                                                *)
(***************************************************************************)
\* C24: addSkill with a name that is not empty after trimming puts exactly
\* one new skill at the front of the skills: its name is the trimmed name, its
\* schedule has the 7 day keys, each empty, its priority is 2, its goals are
\* 30 minutes a day and 180 a week, and createdAtIso and updatedAtIso are the
\* same instant; the existing skills keep their order and the sessions are
\* unchanged. With a name that is empty after trimming nothing changes and
\* nothing is saved.
C24_AddSkillAtFront ==
    [][last'.op = "addSkill" =>
        LET trimmed == trim(last'.arg[2])
            old == skillsOf(app)
            new == skillsOf(app')
        IN  IF trimmed = ""
                THEN /\ app' = app
                     /\ store' = store
                     /\ ~last'.save.called
                ELSE /\ last'.save.called
                     /\ Len(new) = Len(old) + 1
                     /\ SubSeq(new, 2, Len(new)) = old
                     /\ \A i \in 1..Len(old) : Get(new[1], "id") # Get(old[i], "id")
                     /\ Get(new[1], "name") = Str(trimmed)
                     /\ DOMAIN Get(new[1], "schedule")[2] = Weekday
                     /\ \A d \in Weekday : Get(Get(new[1], "schedule"), d) = Arr(<<>>)
                     /\ Get(new[1], "priority") = Num(2)
                     /\ Get(new[1], "dailyGoalMinutes") = Num(30)
                     /\ Get(new[1], "weeklyGoalMinutes") = Num(180)
                     /\ Get(new[1], "createdAtIso") = nowIso(last'.at)
                     /\ Get(new[1], "updatedAtIso") = Get(new[1], "createdAtIso")
                     /\ sessionsOf(app') = sessionsOf(app)
                     /\ overridesOf(app') = overridesOf(app)]_vars

\* " go " has been added in front of two skills
C24_Witness ==
    /\ last.op = "addSkill"
    /\ last.arg = Str(" go ")
    /\ Len(skillsOf(app)) = 3
    /\ Get(skillsOf(app)[1], "name") = Str("go")
    /\ skillsOf(app)[2] = artSkill
    /\ skillsOf(app)[3] = weekSkill

(***************************************************************************)
(* SkillEditor: addBlock, updateBlock, deleteBlock                         *)
(***************************************************************************)
BlockOps == {"addBlock", "updateBlock", "deleteBlock"}

\* the blocks of a day after the command named op, given the blocks before
BlockEdited(op, ob, nb) ==
    CASE op = "addBlock" ->
            /\ Len(nb) = Len(ob) + 1
            /\ SubSeq(nb, 1, Len(ob)) = ob
            /\ Get(nb[Len(nb)], "startTime") = Str("06:00")
            /\ Get(nb[Len(nb)], "minutes") = Num(30)
            /\ \A j \in 1..Len(ob) : Get(ob[j], "id") # Get(nb[Len(nb)], "id")
      [] op = "updateBlock" ->
            /\ Len(nb) = Len(ob)
            /\ \E k \in 1..Len(ob) :
                /\ \A j \in 1..Len(ob) : j # k => nb[j] = ob[j]
                /\ Get(nb[k], "id") = Get(ob[k], "id")
                /\ \E patch \in BlockPatches : nb[k] = Obj(Spread(ob[k][2], patch))
      [] op = "deleteBlock" ->
            \E k \in 1..Len(ob) : nb = SubSeq(ob, 1, k - 1) \o SubSeq(ob, k + 1, Len(ob))

\* C25: the block operations preserve position: addBlock appends the default
\* block (start "06:00", 30 minutes) at the end of the day's blocks, an edit
\* by id leaves the block at the same index, and a delete removes one block
\* and keeps the relative order of the others; the blocks of the other six
\* days and the schedules of the other skills are unchanged.
C25_BlockOpsKeepPosition ==
    [][last'.op \in BlockOps =>
        LET skillId == Get(last'.arg, "skillId")
            old == skillsOf(app)
            new == skillsOf(app')
        IN  /\ Len(new) = Len(old)
            /\ \E i \in 1..Len(old) : Get(old[i], "id") = skillId
            /\ \A i \in 1..Len(old) :
                IF Get(old[i], "id") = skillId
                    THEN \E day \in Weekday :
                            /\ BlockEdited(last'.op, blocksOf(old[i], day), blocksOf(new[i], day))
                            /\ \A d \in Weekday \ {day} :
                                    blocksOf(new[i], d) = blocksOf(old[i], d)
                            /\ DOMAIN Get(new[i], "schedule")[2] = Weekday
                    ELSE new[i] = old[i]]_vars

\* the second Monday block of the second skill has a new start time and is
\* still second; Tuesday and the other skill are as they were
C25_Witness ==
    /\ last.op = "updateBlock"
    /\ Len(skillsOf(app)) = 2
    /\ skillsOf(app)[1] = artSkill
    /\ Len(blocksOf(skillsOf(app)[2], "mon")) = 2
    /\ blocksOf(skillsOf(app)[2], "mon")[1] = blocksOf(weekSkill, "mon")[1]
    /\ Get(blocksOf(skillsOf(app)[2], "mon")[2], "id") = Get(blocksOf(weekSkill, "mon")[2], "id")
    /\ Get(blocksOf(skillsOf(app)[2], "mon")[2], "startTime") = Str("07:30")
    /\ blocksOf(skillsOf(app)[2], "tue") = blocksOf(weekSkill, "tue")

(***************************************************************************)
(* SkillEditor: a goal text that does not parse                            *)
(***************************************************************************)
GoalOps == {"setDailyGoal", "setWeeklyGoal"}

\* C26: when parseDurationToMinutes rejects the text of a goal field, no
\* state is mutated: the skill's goals, the payload, the snapshot's
\* updatedAtIso and the store slot are unchanged and saveAppData is not
\* called; only the inline error of that editor is set, to the message of the
\* parse result. When the text parses, the goal is committed and the inline
\* error is cleared.
C26_RejectedGoalChangesNothing ==
    [][last'.op \in GoalOps =>
        LET res == call'.result
            editor == CHOOSE i \in 1..Len(view.editors) :
                            view.editors[i].key = Get(last'.arg, "skillId")
        IN  /\ call'.fn = "parseDurationToMinutes"
            /\ IF ~res.ok
                  THEN /\ app' = app
                       /\ store' = store
                       /\ ~last'.save.called
                       /\ error' = error
                       /\ Len(view'.editors) = Len(view.editors)
                       /\ view'.editors[editor].durationError = Str(res.message)
                       /\ \A j \in 1..Len(view.editors) :
                            j # editor => view'.editors[j] = view.editors[j]
                  ELSE /\ last'.save.called
                       /\ view'.editors[editor].durationError = Null]_vars

\* "abc" typed into a goal field after an earlier command: the message is
\* shown and the slot still holds the snapshot in memory
C26_Witness ==
    /\ last.op \in GoalOps
    /\ last.at = 1
    /\ Get(last.arg, "input") = Str("abc")
    /\ ~call.result.ok
    /\ \E i \in 1..Len(view.editors) : view.editors[i].durationError = Str(call.result.message)
    /\ Get(app, "updatedAtIso") = nowIso(0)
    /\ store = JSONstringify(app)

(***************************************************************************)
(* Sessions are kept newest first                                          *)
(***************************************************************************)
\* each session started no earlier than every session after it
NewestFirst(sessions) ==
    \A i, j \in 1..Len(sessions) :
        i < j => StringGte(Get(sessions[i], "startedAtIso"), Get(sessions[j], "startedAtIso"))

\* what one command does to the stored sessions
SessionsStep ==
    LET old == sessionsOf(app)
        new == sessionsOf(app')
    IN  CASE last'.op = "addSession" /\ last'.save.called ->
                /\ Len(new) = Len(old) + 1
                /\ SubSeq(new, 2, Len(new)) = old
                /\ new[1] = Obj([id |-> Get(new[1], "id"),
                                 skillId |-> Get(last'.arg, "skillId"),
                                 minutes |-> Get(last'.arg, "minutes"),
                                 startedAtIso |-> nowIso(last'.at),
                                 createdAtIso |-> nowIso(last'.at)])
                /\ \A k \in 1..Len(old) : Get(old[k], "id") # Get(new[1], "id")
          [] last'.op = "deleteSession" ->
                \E k \in 1..Len(old) :
                    /\ Get(old[k], "id") = Get(last'.arg, "sessionId")
                    /\ new = SubSeq(old, 1, k - 1) \o SubSeq(old, k + 1, Len(old))
          [] OTHER -> new = old

\* C27: sessions stay newest first by construction: logging a session puts
\* it at index 0 and keeps the earlier sessions in their order, deleting a
\* session removes only the session with that id, and no command changes a
\* stored session; hence in every state each session's startedAtIso is not
\* earlier than that of any session after it.
C27_SessionsNewestFirst ==
    /\ [](NewestFirst(sessionsOf(app)))
    /\ [][SessionsStep]_vars

\* two sessions logged at different instants into an empty payload, the
\* later one first
C27_Witness ==
    /\ last.op = "addSession"
    /\ last.save.called
    /\ Len(sessionsOf(app)) = 2
    /\ Get(sessionsOf(app)[1], "startedAtIso") = nowIso(1)
    /\ Get(sessionsOf(app)[2], "startedAtIso") = nowIso(0)

(***************************************************************************)
(* App.tsx: handlers close over the snapshot of the render that made them  *)
(*                                                                         *)
(* `app` in addSkill, updateSkill, deleteSkill, addSession and             *)
(* deleteSession is the constant of the render in which the handler was    *)
(* created; setApp(saved) takes effect at the next render.  view.app is     *)
(* the snapshot of the last render, the variable app the state setApp set.  *)
(***************************************************************************)
Rendered(snapshot) ==
    [page |-> "skills", rows |-> NoRows,
     editors |-> editorsOf(skillsOf(snapshot), <<>>), app |-> snapshot]

InitStale ==
    /\ store \in {NoItem} \cup {JSONstringify(d) : d \in EditDocuments}
    /\ now = 0
    /\ app = initialApp(store, now)
    /\ error = Null
    /\ pending = 0
    /\ download = NoItem
    /\ uuids = 0
    /\ last = Op("load", store, NoResult, NoSave, now)
    /\ call = NoCall
    /\ view = Rendered(app)

\* React renders App again with the state the last setApp set
rerender ==
    /\ view.app # app
    /\ view' = Rendered(app)
    /\ UNCHANGED <<store, app, now, error, pending, download, uuids, last, call>>

\* commit(next) called by a handler of the last render
CommitsRendered(op, arg, next) ==
    /\ commit(next)
    /\ last' = Op(op, arg, NoResult, Saved(next), now)
    /\ UNCHANGED <<error, pending, download, call, view>>

addSkillRendered ==
    /\ Elapses
    /\ uuids < MaxIds
    /\ LET next == WithPayloadField(view.app, "skills",
                        Arr(<<newSkill("go", uuids, now)>> \o skillsOf(view.app)))
       IN  CommitsRendered("addSkill", Str("go"), next)
    /\ uuids' = uuids + 1

updateSkillRendered ==
    /\ Elapses
    /\ \E i \in 1..Len(skillsOf(view.app)) :
        LET skillId == Get(skillsOf(view.app)[i], "id")
            patch == [priority |-> Num(3)]
            next == WithPayloadField(view.app, "skills",
                        Arr(updatedSkills(skillsOf(view.app), skillId, patch, now)))
        IN  CommitsRendered("updateSkill", Obj([skillId |-> skillId, patch |-> Obj(patch)]), next)
    /\ UNCHANGED uuids

deleteSkillRendered ==
    /\ Elapses
    /\ \E i \in 1..Len(skillsOf(view.app)) :
        LET skillId == Get(skillsOf(view.app)[i], "id")
            kept(s) == ~StrictEquals(Get(s, "id"), skillId)
            next == WithPayloadField(view.app, "skills",
                        Arr(SelectSeq(skillsOf(view.app), kept)))
        IN  CommitsRendered("deleteSkill", Obj([skillId |-> skillId]), next)
    /\ UNCHANGED uuids

addSessionRendered ==
    /\ Elapses
    /\ uuids < MaxIds
    /\ \E i \in 1..Len(skillsOf(view.app)) :
        LET skillId == Get(skillsOf(view.app)[i], "id")
            session == Session(id(uuids), skillId, 25, now)
            next == WithPayloadField(view.app, "sessions",
                        Arr(<<session>> \o sessionsOf(view.app)))
        IN  CommitsRendered("addSession", Obj([skillId |-> skillId, minutes |-> Num(25)]), next)
    /\ uuids' = uuids + 1

deleteSessionRendered ==
    /\ Elapses
    /\ \E k \in 1..Len(sessionsOf(view.app)) :
        LET sessionId == Get(sessionsOf(view.app)[k], "id")
            others(s) == ~StrictEquals(Get(s, "id"), sessionId)
            next == WithPayloadField(view.app, "sessions",
                        Arr(SelectSeq(sessionsOf(view.app), others)))
        IN  CommitsRendered("deleteSession", Obj([sessionId |-> sessionId]), next)
    /\ UNCHANGED uuids

NextStale ==
    \/ rerender
    \/ addSkillRendered
    \/ updateSkillRendered
    \/ deleteSkillRendered
    \/ addSessionRendered
    \/ deleteSessionRendered

SpecStale == InitStale /\ [][NextStale]_vars

\* the snapshot a command has to build when it is applied to the snapshot
\* committed last
AppliedTo(data, op) ==
    LET skillId == Get(op.arg, "skillId")
        keptSkill(s) == ~StrictEquals(Get(s, "id"), skillId)
        keptSession(s) == ~StrictEquals(Get(s, "id"), Get(op.arg, "sessionId"))
    IN  CASE op.op = "addSkill" ->
                WithPayloadField(data, "skills",
                    Arr(<<skillsOf(op.save.data)[1]>> \o skillsOf(data)))
          [] op.op = "updateSkill" ->
                WithPayloadField(data, "skills",
                    Arr(updatedSkills(skillsOf(data), skillId, Get(op.arg, "patch")[2], op.at)))
          [] op.op = "deleteSkill" ->
                WithPayloadField(data, "skills", Arr(SelectSeq(skillsOf(data), keptSkill)))
          [] op.op = "addSession" ->
                WithPayloadField(data, "sessions",
                    Arr(<<sessionsOf(op.save.data)[1]>> \o sessionsOf(data)))
          [] op.op = "deleteSession" ->
                WithPayloadField(data, "sessions", Arr(SelectSeq(sessionsOf(data), keptSession)))

CommandOps == {"addSkill", "updateSkill", "deleteSkill", "addSession", "deleteSession"}

\* C28, as claimed: no committed change is lost: every mutation command is
\* applied on top of the most recently committed snapshot, also when it is
\* issued before the view has re-rendered with the result of the command
\* before it, so that the payload in memory and in the store
\* afterwards holds the effect of all the commands.
C28_NoCommittedChangeLost ==
    [][(<<last'.op, last'.at>> # <<last.op, last.at>>
            /\ last'.op \in CommandOps /\ last'.save.called) =>
        /\ Get(last'.save.data, "payload") = Get(AppliedTo(app, last'), "payload")
        /\ Get(app', "payload") = Get(saveAppData(AppliedTo(app, last'), last'.at).ret, "payload")
        /\ store' = saveAppData(AppliedTo(app, last'), last'.at).item]_vars

(***************************************************************************)
(* parseHHMMToMinutes on every kind of start time                          *)
(***************************************************************************)
\* the two-digit numbers typed before and after the colon
HoursTyped == {0, 6, 12, 23, 24, 25, 99}
MinutesTyped == {0, 1, 30, 59, 60, 75, 99}

\* the start times a block can hold: two digits, a colon and two digits, and
\* the texts that are no "HH:MM"
StartTimes ==
    {TwoDigits(h) \o ":" \o TwoDigits(m) : h \in HoursTyped, m \in MinutesTyped}
        \cup StartTimesTyped

InitStart ==
    /\ Opened
    /\ call \in {Call("input", <<text>>, <<>>) : text \in StartTimes}

\* parseHHMMToMinutes(b.startTime)
ParseStart ==
    /\ call.fn = "input"
    /\ call' = Call("parseHHMMToMinutes", call.args, <<parseHHMMToMinutes(call.args[1])>>)
    /\ UNCHANGED appVars

NextStart == ParseStart

SpecStart == InitStart /\ [][NextStart]_vars

\* the last minute of a day, 23:59, counted from midnight
LastMinuteOfDay == 23 * 60 + 59

\* C30, as claimed: for every startTime string the minutes-since-midnight
\* value that parseHHMMToMinutes returns lies in 0..1439, so that the block is
\* due at some time of the day.
C30_StartWithinDay ==
    call.fn = "parseHHMMToMinutes" =>
        /\ call.result[1] \in 0..LastMinuteOfDay
        /\ \E d \in {Date(h, m) : h \in 0..23, m \in 0..59} :
                call.result[1] <= minutesSinceMidnight(d)

\* what the code gives: hh * 60 + mm for any two pairs of digits, 0 for every
\* other text; the value is within the day exactly when hh * 60 + mm is
StartAsParsed ==
    call.fn = "parseHHMMToMinutes" =>
        LET text == call.args[1]
        IN  IF IsHHMM(text)
                THEN \E h, m \in 0..99 :
                        /\ text = TwoDigits(h) \o ":" \o TwoDigits(m)
                        /\ call.result[1] = h * 60 + m
                ELSE call.result[1] = 0

(***************************************************************************)
(* expectedMinutesByNow as the day goes by                                 *)
(***************************************************************************)
\* the blocks of a day: starts within the day, at its last minute and past
\* it, for no minutes and for some
LongDayKinds ==
    {<<"00:00", 30>>, <<"06:00", 0>>, <<"06:00", 45>>, <<"23:59", 30>>,
     <<"24:00", 30>>, <<"23:75", 45>>, <<"6:00", 30>>}
LongDayLists ==
    UNION {{[i \in 1..n |-> dayBlock(i, f[i][1], f[i][2])] :
                f \in [1..n -> LongDayKinds]} : n \in 0..MaxBlocks}

\* the day begins: expectedMinutesByNow(blocks, now) at 00:00
InitLongDay ==
    /\ Opened
    /\ call \in {Call("expectedMinutesByNow", <<blocks, Date(0, 0)>>,
                      <<expectedMinutesByNow(blocks, Date(0, 0))>>) :
                    blocks \in LongDayLists}

\* expectedMinutesByNow(blocks, now) at a later time of the same day, the
\* schedule unchanged
LaterThatDay ==
    /\ call.fn = "expectedMinutesByNow"
    /\ \E c \in Clocks :
        /\ minutesSinceMidnight(Date(c[1], c[2])) > minutesSinceMidnight(call.args[2])
        /\ call' = Call("expectedMinutesByNow", <<call.args[1], Date(c[1], c[2])>>,
                        <<expectedMinutesByNow(call.args[1], Date(c[1], c[2]))>>)
    /\ UNCHANGED appVars

NextLongDay == LaterThatDay

SpecLongDay == InitLongDay /\ [][NextLongDay]_vars

\* C29, as claimed: with the schedule unchanged and every block's minutes a
\* non-negative integer, expectedMinutesByNow does not decrease as the time
\* of day advances from 00:00 to 23:59, and at 23:59 it is the sum of the
\* minutes of all the blocks of the day.
C29_ExpectedGrowsToTotal ==
    /\ [][call'.result[1] >= call.result[1]]_vars
    /\ [](call.args[2] = Date(23, 59) => call.result[1] = ReduceMinutes(call.args[1], 0))

\* what holds: the value does not decrease during the day, and at 23:59 it is
\* the sum of the minutes of the blocks whose start parses to a minute of the
\* day
ExpectedGrowsToDueTotal ==
    /\ [][call'.result[1] >= call.result[1]]_vars
    /\ [](call.args[2] = Date(23, 59) =>
            LET due(b) == parseHHMMToMinutes(Get(b, "startTime")[2]) <= LastMinuteOfDay
            IN  call.result[1] = ReduceMinutes(SelectSeq(call.args[1], due), 0))
====
